---- MODULE Spec2Model ----
(***************************************************************************)
(* Iterative LQ game solver (ILQGame::Solve and its helpers).              *)
(*                                                                         *)
(* Numbers.  The solver and ComputeStrategyCosts work on float and on      *)
(* vectors of float (VectorXf).  A float of theirs is modelled as the      *)
(* IEEE 754 single-precision number it is: the record                      *)
(* [m |-> mantissa, e |-> exponent] stands for m * 2^e, with a signed      *)
(* mantissa of 24 bits (2^23 <= |m| < 2^24) and zero written               *)
(* [m |-> 0, e |-> 0].  Sums, differences and products are rounded to the  *)
(* nearest float, ties to even, as the hardware rounds them, so that       *)
(* 0.6f - 0.5f is above 0.1f and 0.1f * 0.05f is the float 0.005f and not  *)
(* a whole number of hundredths.  The values met stay far from overflow    *)
(* and underflow, which are not modelled, and the two zeros of the format  *)
(* are one (they compare equal in the program).                            *)
(*                                                                         *)
(* Hundredths(n) is the float nearest to n / 100, the float a decimal      *)
(* literal such as 0.1 denotes (Hundredths(10)); Float(n) is the float of  *)
(* the integer n.  The section on the unicycle states its own units.       *)
(*                                                                         *)
(* Vectors (VectorXf) are sequences; the default-constructed, empty        *)
(* VectorXf is <<>>.  Time steps are indexed 0..T-1 and players 0..N-1 as  *)
(* in the source.                                                          *)
(***************************************************************************)
EXTENDS Integers, Sequences, FiniteSets, TLC

\* ------------------------------------------------------------- bounds
\* num_time_steps_ of the solver under study.
NumTimeSteps == 3
\* dynamics_->NumPlayers().
NumPlayers == 2
\* dynamics_->UDim(i), the same for every player.
UDim == 1

\* dynamics_->XDim(): one state component per player.
XDim == NumPlayers

Steps == 0 .. (NumTimeSteps - 1)
Players == 0 .. (NumPlayers - 1)

\* --------------------------------------------------------------- floats
\* The number of bits of a natural number below 2^31.
BitLength4(n) ==
  IF n < 4 THEN (IF n < 2 THEN n ELSE 2) ELSE IF n < 8 THEN 3 ELSE 4

BitLength8(n) == IF n < 16 THEN BitLength4(n) ELSE 4 + BitLength4(n \div 16)

BitLength16(n) ==
  IF n < 256 THEN BitLength8(n) ELSE 8 + BitLength8(n \div 256)

BitLength(n) ==
  IF n < 65536 THEN BitLength16(n) ELSE 16 + BitLength16(n \div 65536)

IntAbs(n) == IF n < 0 THEN 0 - n ELSE n

IntSgn(n) == IF n > 0 THEN 1 ELSE IF n < 0 THEN 0 - 1 ELSE 0

\* 0.0f
FloatZero == [m |-> 0, e |-> 0]

\* A float is m * 2^e: normal numbers have 2^23 <= |m| < 2^24 and
\* -149 <= e <= 104, subnormal numbers have |m| < 2^23 and e = -149.
\* The exponent 128 marks the special values: the infinities carry m = 1
\* or m = -1 and the NaN carries m = 0.
FloatInf(sign) == [m |-> sign, e |-> 128]

FloatNaN == [m |-> 0, e |-> 128]

IsNaN(a) == a.e = 128 /\ a.m = 0

IsInf(a) == a.e = 128 /\ a.m # 0

\* The float nearest to sign * M * 2^e for a natural number M > 0 below
\* 2^31, ties to the even mantissa: the result is subnormal or zero below
\* 2^-126 and an infinity from 2^128 on.
RoundToFloat(sign, M, e) ==
  LET b == BitLength(M)
      te == IF e + b - 24 < 0 - 149 THEN 0 - 149 ELSE e + b - 24
      sh == te - e
  IN IF sh <= 0
     THEN (IF te > 104 THEN FloatInf(sign)
           ELSE [m |-> sign * M * (2 ^ (0 - sh)), e |-> te])
     ELSE IF sh > b THEN FloatZero
     ELSE LET q == M \div (2 ^ sh)
              r == M % (2 ^ sh)
              half == 2 ^ (sh - 1)
              q1 == IF r > half \/ (r = half /\ q % 2 = 1) THEN q + 1 ELSE q
          IN IF q1 = 0 THEN FloatZero
             ELSE IF q1 = 16777216
             THEN (IF te + 1 > 104 THEN FloatInf(sign)
                   ELSE [m |-> sign * 8388608, e |-> te + 1])
             ELSE IF te > 104 THEN FloatInf(sign)
             ELSE [m |-> sign * q1, e |-> te]

\* static_cast<float>(n) of an integer n.
Float(n) ==
  IF n = 0 THEN FloatZero ELSE RoundToFloat(IntSgn(n), IntAbs(n), 0)

\* The float of the decimal literal n / 100.
Hundredths(n) ==
  IF n = 0 THEN FloatZero
  ELSE LET k0 == 30 - BitLength(IntAbs(n))
           k == IF IntAbs(n) * (2 ^ k0) >= 838860800 THEN k0 ELSE k0 + 1
           N == IntAbs(n) * (2 ^ k)
           q == N \div 100
           r == N % 100
           q1 == IF 2 * r > 100 \/ (2 * r = 100 /\ q % 2 = 1) THEN q + 1 ELSE q
       IN IF q1 = 16777216
          THEN [m |-> IntSgn(n) * 8388608, e |-> 1 - k]
          ELSE [m |-> IntSgn(n) * q1, e |-> 0 - k]

\* The float 2^k for -149 <= k <= 127.
PowerOfTwo(k) ==
  IF k < 0 - 126 THEN [m |-> 2 ^ (k + 149), e |-> 0 - 149]
  ELSE [m |-> 8388608, e |-> k - 23]

\* hi + lo for two finite non-zero floats, hi of the larger exponent: lo
\* is aligned to hi with three guard bits, the bits shifted out kept as a
\* sticky bit, and the sum is rounded.
FloatAddAligned(hi, lo) ==
  LET d == hi.e - lo.e
  IN IF d > 26 THEN hi
     ELSE LET lo8 == IntAbs(lo.m) * 8
              bq == lo8 \div (2 ^ d)
              B == IF (lo8 % (2 ^ d)) # 0 /\ bq % 2 = 0 THEN bq + 1 ELSE bq
              S == hi.m * 8 + IntSgn(lo.m) * B
          IN IF S = 0 THEN FloatZero
             ELSE RoundToFloat(IntSgn(S), IntAbs(S), hi.e - 3)

\* a + b on float: a NaN operand or two infinities of opposite signs give
\* the NaN, an infinity absorbs every finite number.
FloatAdd(a, b) ==
  IF IsNaN(a) \/ IsNaN(b) THEN FloatNaN
  ELSE IF a.e = 128 THEN (IF b.e = 128 /\ b.m # a.m THEN FloatNaN ELSE a)
  ELSE IF b.e = 128 THEN b
  ELSE IF a.m = 0 THEN b
  ELSE IF b.m = 0 THEN a
  ELSE IF a.e >= b.e THEN FloatAddAligned(a, b) ELSE FloatAddAligned(b, a)

\* -a on float.
FloatNeg(a) == [m |-> 0 - a.m, e |-> a.e]

\* a - b on float.
FloatSub(a, b) == FloatAdd(a, FloatNeg(b))

\* A finite non-zero float with its mantissa shifted up to 24 bits.
Normalized(a) ==
  IF IntAbs(a.m) >= 8388608 THEN a
  ELSE LET k == 24 - BitLength(IntAbs(a.m))
       IN [m |-> a.m * (2 ^ k), e |-> a.e - k]

\* a * b for two finite non-zero floats of 24-bit mantissas: the 48-bit
\* product of the mantissas, formed from halves of 12 bits, rounded.
FloatMulNormal(a, b) ==
  LET a1 == IntAbs(a.m) \div 4096
      a0 == IntAbs(a.m) % 4096
      b1 == IntAbs(b.m) \div 4096
      b0 == IntAbs(b.m) % 4096
      low == a0 * b0
      mid == a1 * b0 + a0 * b1 + (low \div 4096)
      hi == a1 * b1 + (mid \div 4096)
      rest == (mid % 4096) * 4096 + (low % 4096)
      top == hi * 64 + (rest \div 262144)
      M == IF (rest % 262144) # 0 /\ top % 2 = 0 THEN top + 1 ELSE top
  IN RoundToFloat(IntSgn(a.m) * IntSgn(b.m), M, a.e + b.e + 18)

\* a * b on float: a NaN operand or zero times an infinity give the NaN.
FloatMul(a, b) ==
  IF IsNaN(a) \/ IsNaN(b) THEN FloatNaN
  ELSE IF a.e = 128 \/ b.e = 128
  THEN (IF a.m = 0 \/ b.m = 0 THEN FloatNaN
        ELSE FloatInf(IntSgn(a.m) * IntSgn(b.m)))
  ELSE IF a.m = 0 \/ b.m = 0 THEN FloatZero
  ELSE FloatMulNormal(Normalized(a), Normalized(b))

\* a < b on float: false whenever an operand is the NaN.
FloatLess(a, b) ==
  LET sa == IntSgn(a.m)
      sb == IntSgn(b.m)
  IN IF IsNaN(a) \/ IsNaN(b) THEN FALSE
     ELSE IF sa # sb THEN sa < sb
     ELSE IF sa = 0 THEN FALSE
     ELSE IF a.e # b.e THEN (IF sa > 0 THEN a.e < b.e ELSE a.e > b.e)
     ELSE a.m < b.m

\* ---------------------------------------------------- program constants
\* constexpr size_t kMaxIterations = 50;
kMaxIterations == 50
\* constexpr float kMaxElementwiseDifference = 0.1;
kMaxElementwiseDifference == Hundredths(10)
\* constexpr float kAlphaScalingFactor = 0.05;
kAlphaScalingFactor == Hundredths(5)

\* ------------------------------------------------------ vector algebra
Abs(v) == [m |-> IntAbs(v.m), e |-> v.e]

\* The sign of a float, as an integer.
Sgn(v) == IntSgn(v.m)

Max(a, b) == IF FloatLess(a, b) THEN b ELSE a

\* a - b on VectorXf.
VecSub(a, b) == [j \in 1 .. Len(a) |-> FloatSub(a[j], b[j])]

\* v.cwiseAbs()
CwiseAbs(v) == [j \in 1 .. Len(v) |-> Abs(v[j])]

RECURSIVE MaxCoeffUpTo(_, _)
MaxCoeffUpTo(v, n) ==
  IF n = 1 THEN v[1] ELSE Max(MaxCoeffUpTo(v, n - 1), v[n])

\* v.maxCoeff() of a non-empty vector.
MaxCoeff(v) == MaxCoeffUpTo(v, Len(v))

RECURSIVE SumUpTo(_, _)
SumUpTo(v, n) ==
  IF n = 0 THEN FloatZero ELSE FloatAdd(SumUpTo(v, n - 1), v[n])

\* v.sum()
VecSum(v) == SumUpTo(v, Len(v))

\* Row r of matrix M times vector x.
Dot(row, x) == VecSum([j \in 1 .. Len(x) |-> FloatMul(row[j], x[j])])

\* M * x for a matrix given as the sequence of its rows.
MatVec(M, x) == [r \in 1 .. Len(M) |-> Dot(M[r], x)]

\* A vector of n copies of v.
ConstVec(n, v) == [j \in 1 .. n |-> v]

\* ------------------------------------------------------- collaborators
\* OperatingPoint(num_time_steps, num_players): xs and us of the right
\* lengths holding default-constructed (empty) vectors.
EmptyOperatingPoint ==
  [xs |-> [k \in Steps |-> <<>>],
   us |-> [k \in Steps |-> [i \in Players |-> <<>>]]]

\* Time ComputeTimeStamp(kk): initial_time_ + time_step_ * kk.
ComputeTimeStamp(game, kk) ==
  FloatAdd(game.initial_time, FloatMul(game.time_step, Float(kk)))

\* Strategy::operator()(time_index, delta_x, u_ref):
\*   u_ref - Ps[time_index] * delta_x - alphas[time_index].
StrategyApply(strategy, kk, delta_x, u_ref) ==
  VecSub(VecSub(u_ref, MatVec(strategy.Ps[kk], delta_x)), strategy.alphas[kk])

\* dynamics_->Integrate(t, time_step, x, us): player j's component moves by
\* its own control over one time step, plus a time-varying drift.
Integrate(game, t, time_step, x, us) ==
  [j \in 1 .. Len(x) |->
    FloatAdd(FloatAdd(x[j], FloatMul(time_step, VecSum(us[j - 1]))),
             FloatMul(game.drift, t))]

\* dynamics_->Linearize(t, time_step, x, us): the Jacobians are a function
\* of the point they are taken at, which is what the record keeps.
Linearize(game, t, time_step, x, us) ==
  [t |-> t, time_step |-> time_step, x |-> x, us |-> us]

\* cost.Quadraticize(t, x, us) of player ii's cost: as for Linearize.
Quadraticize(ii, t, x, us) == [player |-> ii, t |-> t, x |-> x, us |-> us]

\* Whether some S(k) of the LQ game is singular: in a game with
\* game.singular, player 0's control cost vanishes where its control at the
\* first time step of the operating point is zero.
SingularS(game, lin, quad) ==
  game.singular /\ VecSum(CwiseAbs(quad[0][0].us[0])) = FloatZero

\* The feedback Nash strategies of the steering games: player ii feeds back
\* its own state component with gain game.gain and steers the next state of
\* the operating point towards game.goal with an offset of size
\* 20 * game.push.
SteerStrategies(game, lin, quad) ==
  [ii \in Players |->
    [Ps |-> [kk \in Steps |->
              [r \in 1 .. UDim |->
                [j \in 1 .. XDim |->
                  IF j = ii + 1 THEN game.gain ELSE FloatZero]]],
     alphas |-> [kk \in Steps |->
              LET kn == IF kk < NumTimeSteps - 1 THEN kk + 1 ELSE kk
              IN ConstVec(UDim,
                   FloatMul(
                     Float(20 * Sgn(FloatSub(quad[kn][ii].x[ii + 1],
                                             game.goal))),
                     game.push))]]]

\* The feedback Nash strategies of the control-effort game, which is
\* already LQ: the dynamics are affine (Integrate above) and player ii's
\* cost is half the square of its own control, so Q = 0, l = 0, R_ii = I
\* and r_ii = u_ii at the operating point.  The recursion of the LQ solver
\* gives Z = 0 and zeta = 0 at every step, hence S = I, P = 0 and
\* alpha_ii(k) = u_ii(k).
EffortStrategies(game, lin, quad) ==
  [ii \in Players |->
    [Ps |-> [kk \in Steps |->
              [r \in 1 .. UDim |-> ConstVec(XDim, FloatZero)]],
     alphas |-> [kk \in Steps |-> quad[kk][ii].us[ii]]]]

\* SolveLQGame(*dynamics_, linearization, quadraticization): a set of
\* strategies, one per player, that is a function of the linearization and
\* the quadraticization.
SolveLQGame(game, lin, quad) ==
  IF game.costs = "effort"
  THEN EffortStrategies(game, lin, quad)
  ELSE SteerStrategies(game, lin, quad)

\* ------------------------------------------------------------- rollout
\* The state deviation with its sign flipped.
DeltaX_Flipped(x, last_operating_point, kk) ==
  VecSub(last_operating_point.xs[kk], x)

\* const VectorXf delta_x = x - last_operating_point.xs[kk];
DeltaX(x, last_operating_point, kk) == VecSub(x, last_operating_point.xs[kk])

\* current_us[jj] = strategy(kk, delta_x, last_us[jj]) for every player jj.
CurrentUs(current_strategies, last_operating_point, kk, delta_x) ==
  [jj \in Players |->
    StrategyApply(current_strategies[jj], kk, delta_x,
                  last_operating_point.us[kk][jj])]

\* The dynamics integrated at every time step, the last included.
IntegratesAt_Always(game, kk) == kk < game.num_time_steps

\* if (kk < num_time_steps_ - 1)
IntegratesAt(game, kk) == kk < game.num_time_steps - 1

\* The loop of CurrentOperatingPoint, for (kk = 0; kk < num_time_steps_;
\* kk++), from time step kk on, entered with
\* state x.  Yields the operating point written so far and the calls of
\* dynamics_->Integrate made, in order.  A pass in which the strategy of
\* some player has no gain or no offset at kk reads past the end of a
\* vector (line 194): the loop is left there, ended |-> TRUE, with the
\* state recorded (line 185) and the controls of the players before that
\* one, and with no call of Integrate for the pass.
RECURSIVE RolloutFrom(_, _, _, _, _, _, _)
RolloutFrom(game, last_operating_point, current_strategies, kk, x, op, calls) ==
  IF kk >= game.num_time_steps
  THEN [op |-> op, calls |-> calls, ended |-> FALSE]
  ELSE
    LET t == ComputeTimeStamp(game, kk)
        delta_x == DeltaX(x, last_operating_point, kk)
        in_bounds ==
          [jj \in Players |->
            /\ jj \in DOMAIN current_strategies
            /\ kk \in DOMAIN current_strategies[jj].Ps
            /\ kk \in DOMAIN current_strategies[jj].alphas]
        current_us ==
          CurrentUs(current_strategies, last_operating_point, kk, delta_x)
        recorded == [xs |-> [op.xs EXCEPT ![kk] = x],
                     us |-> [op.us EXCEPT ![kk] = current_us]]
    IN IF \E jj \in Players : ~ in_bounds[jj]
       THEN [op |->
               [xs |-> [op.xs EXCEPT ![kk] = x],
                us |-> [op.us EXCEPT ![kk] =
                         [jj \in Players |->
                           IF \A ii \in 0 .. jj : in_bounds[ii]
                           THEN StrategyApply(current_strategies[jj], kk,
                                  delta_x, last_operating_point.us[kk][jj])
                           ELSE op.us[kk][jj]]]],
             calls |-> calls, ended |-> TRUE]
       ELSE IF IntegratesAt(game, kk)
       THEN RolloutFrom(game, last_operating_point, current_strategies,
                        kk + 1,
                        Integrate(game, t, game.time_step, x, current_us),
                        recorded,
                        Append(calls, [t |-> t, time_step |-> game.time_step,
                                       x |-> x, us |-> current_us]))
       ELSE RolloutFrom(game, last_operating_point, current_strategies,
                        kk + 1, x, recorded, calls)

\* ILQGame::CurrentOperatingPoint(x0, last_operating_point,
\* current_strategies, &current_operating_point).
CurrentOperatingPoint(game, x0, last_op, current_strategies, current_op) ==
  RolloutFrom(game, last_op, current_strategies, 0, x0, current_op, <<>>)

\* --------------------------------------------------------- convergence
\* The tolerance tested by >= instead of >.
ExceedsTolerance_Strict(delta) ==
  ~ FloatLess(MaxCoeff(CwiseAbs(delta)), kMaxElementwiseDifference)

\* delta.cwiseAbs().maxCoeff() > kMaxElementwiseDifference
ExceedsTolerance(delta) ==
  FloatLess(kMaxElementwiseDifference, MaxCoeff(CwiseAbs(delta)))

\* The body of the loop over kk of HasConverged: TRUE when the loop returns
\* false at time step kk.
DiffersAt(last_operating_point, current_operating_point, kk) ==
  \/ ExceedsTolerance(VecSub(current_operating_point.xs[kk],
                             last_operating_point.xs[kk]))
  \/ \E jj \in Players :
       ExceedsTolerance(VecSub(current_operating_point.us[kk][jj],
                               last_operating_point.us[kk][jj]))

\* HasConverged with the iteration cap tested by > instead of >=.
HasConverged_CapOffByOne(iteration, last_operating_point, current_operating_point) ==
  IF iteration > kMaxIterations THEN TRUE
  ELSE IF iteration = 0 THEN FALSE
  ELSE ~ \E kk \in Steps :
           DiffersAt(last_operating_point, current_operating_point, kk)

\* HasConverged whose iteration-0 test returns true.
HasConverged_ZeroConverges(iteration, last_operating_point, current_operating_point) ==
  IF iteration >= kMaxIterations THEN TRUE
  ELSE IF iteration = 0 THEN TRUE
  ELSE ~ \E kk \in Steps :
           DiffersAt(last_operating_point, current_operating_point, kk)

\* HasConverged that never reports convergence after the first iteration.
HasConverged_NotAfterFirst(iteration, last_operating_point, current_operating_point) ==
  IF iteration >= kMaxIterations THEN TRUE
  ELSE IF iteration <= 1 THEN FALSE
  ELSE ~ \E kk \in Steps :
           DiffersAt(last_operating_point, current_operating_point, kk)

\* ILQGame::HasConverged(iteration, last_operating_point,
\* current_operating_point).
HasConverged(iteration, last_operating_point, current_operating_point) ==
  IF iteration >= kMaxIterations THEN TRUE
  ELSE IF iteration = 0 THEN FALSE
  ELSE ~ \E kk \in Steps :
           DiffersAt(last_operating_point, current_operating_point, kk)

\* ------------------------------------------------------------ modifier
\* The offsets scaled by 0.5.
ScaleAlpha_Half(alpha) ==
  [j \in 1 .. Len(alpha) |-> FloatMul(alpha[j], Hundredths(50))]

\* alpha *= kAlphaScalingFactor;
ScaleAlpha(alpha) ==
  [j \in 1 .. Len(alpha) |-> FloatMul(alpha[j], kAlphaScalingFactor)]

\* The gains scaled along with the offsets.
ScaleStrategy_GainsToo(strategy) ==
  [Ps |-> [kk \in DOMAIN strategy.Ps |->
            [r \in 1 .. Len(strategy.Ps[kk]) |-> ScaleAlpha(strategy.Ps[kk][r])]],
   alphas |-> [kk \in DOMAIN strategy.alphas |-> ScaleAlpha(strategy.alphas[kk])]]

\* for (auto& alpha : strategy.alphas) alpha *= kAlphaScalingFactor;
ScaleStrategy(strategy) ==
  [Ps |-> strategy.Ps,
   alphas |-> [kk \in DOMAIN strategy.alphas |-> ScaleAlpha(strategy.alphas[kk])]]

\* ILQGame::ModifyLQStrategies(current_operating_point, strategies): the
\* value returned and the strategies as left in *strategies.
ModifyLQStrategies(current_operating_point, strategies) ==
  [ok |-> TRUE,
   strategies |-> [ii \in DOMAIN strategies |-> ScaleStrategy(strategies[ii])]]

\* An override of the virtual ModifyLQStrategies in a derived class: the
\* step is given up, and false returned with *strategies as it was, when a
\* control of the current operating point leaves the trust region;
\* otherwise the offsets are scaled as in the base class.
TrustRegionModifyLQStrategies(game, current_operating_point, strategies) ==
  IF \E kk \in Steps, jj \in Players :
       FloatLess(game.trust,
                 MaxCoeff(CwiseAbs(current_operating_point.us[kk][jj])))
  THEN [ok |-> FALSE, strategies |-> strategies]
  ELSE ModifyLQStrategies(current_operating_point, strategies)

\* The virtual call ModifyLQStrategies(...) made by Solve, dispatched on the
\* class of the solver object.
CallModifyLQStrategies(game, current_operating_point, strategies) ==
  IF game.modifier = "default"
  THEN ModifyLQStrategies(current_operating_point, strategies)
  ELSE TrustRegionModifyLQStrategies(game, current_operating_point, strategies)

\* ------------------------------------------------------- solver inputs
\* The solver object (dynamics_, player_costs_, time_step_, initial time,
\* num_time_steps_)
\* as the parameters of the collaborators above.
Games ==
  [drift : {Hundredths(0), Hundredths(1)},
   time_step : {Float(1)}, initial_time : {Float(0)},
   num_time_steps : {NumTimeSteps},
   gain : {Float(0), Float(1)},
   push : {Hundredths(0), Hundredths(10), Hundredths(11)},
   goal : {Hundredths(0)},
   modifier : {"default"}, trust : {Hundredths(0)}, singular : {FALSE},
   costs : {"steer"}, build : {"debug"}]

\* Solver objects of a class derived from ILQGame that overrides
\* ModifyLQStrategies with a trust region of half-width game.trust, and
\* games whose LQ approximation has a singular S(k) at some operating
\* points.
FailureGames ==
  [drift : {Hundredths(0)}, time_step : {Float(1)}, initial_time : {Float(0)},
   num_time_steps : {NumTimeSteps},
   gain : {Float(0), Float(1)}, push : {Hundredths(0), Hundredths(10)},
   goal : {Hundredths(0)},
   modifier : {"default", "trust_region"}, trust : {Hundredths(25)},
   singular : BOOLEAN,
   costs : {"steer"}, build : {"debug"}]

\* Games that are already LQ: affine dynamics and control-effort costs.
LQGames ==
  [drift : {Hundredths(0), Hundredths(1)},
   time_step : {Float(1)}, initial_time : {Float(0)},
   num_time_steps : {NumTimeSteps},
   gain : {Float(0)}, push : {Hundredths(0)}, goal : {Hundredths(0)},
   modifier : {"default"}, trust : {Hundredths(0)}, singular : {FALSE},
   costs : {"effort"}, build : {"debug"}]

\* Initial joint states: player j starts at j * v hundredths.
X0s == {[j \in 1 .. XDim |-> Hundredths(j * v)] : v \in {0, 11}}

\* Initial operating points: a constant trajectory.
InitialOperatingPoints ==
  {[xs |-> [k \in Steps |-> ConstVec(XDim, Hundredths(ox))],
    us |-> [k \in Steps |-> [i \in Players |-> ConstVec(UDim, FloatZero)]]] :
     ox \in {0, 5}}

\* Initial strategies: the same gain on every state component and the same
\* offset at every time step, for every player.
InitialStrategies ==
  {[i \in Players |->
     [Ps |-> [k \in Steps |-> [r \in 1 .. UDim |-> ConstVec(XDim, Float(p))]],
      alphas |-> [k \in Steps |-> ConstVec(UDim, Hundredths(a))]]] :
     p \in {0, 1}, a \in {0, 10, 12}}

\* Builds and games for calls of Solve with arguments of any size: DCHECK
\* is live in a debug build and compiled out with NDEBUG.
ConfigGames ==
  [drift : {Hundredths(0)}, time_step : {Float(1)}, initial_time : {Float(0)},
   num_time_steps : {NumTimeSteps},
   gain : {Float(0)}, push : {Hundredths(0), Hundredths(10)},
   goal : {Hundredths(0)},
   modifier : {"default"}, trust : {Hundredths(0)}, singular : {FALSE},
   costs : {"steer"}, build : {"debug", "release"}]

\* One strategy more than there are players.
ExtraStrategy(strategies) ==
  [ii \in 0 .. NumPlayers |->
    IF ii \in DOMAIN strategies THEN strategies[ii] ELSE strategies[0]]

\* Every strategy with one gain and one offset more than num_time_steps_.
LongStrategies(strategies) ==
  [ii \in DOMAIN strategies |->
    [Ps |-> [kk \in 0 .. NumTimeSteps |-> strategies[ii].Ps[0]],
     alphas |-> [kk \in 0 .. NumTimeSteps |-> strategies[ii].alphas[0]]]]

\* Every strategy with one offset fewer than num_time_steps_.
ShortAlphas(strategies) ==
  [ii \in DOMAIN strategies |->
    [Ps |-> strategies[ii].Ps,
     alphas |-> [kk \in 0 .. NumTimeSteps - 2 |-> strategies[ii].alphas[kk]]]]

\* An operating point with one time step more than num_time_steps_.
LongOperatingPoint(op) ==
  [xs |-> [kk \in 0 .. NumTimeSteps |-> op.xs[0]],
   us |-> [kk \in 0 .. NumTimeSteps |-> op.us[0]]]

\* Initial strategies and operating points of the right and of wrong sizes.
AnySizeStrategies ==
  UNION {{s, ExtraStrategy(s), LongStrategies(s), ShortAlphas(s)} :
           s \in {t \in InitialStrategies :
                     t[0].alphas[0][1] # Hundredths(12)}}

AnySizeOperatingPoints ==
  UNION {{op, LongOperatingPoint(op)} : op \in InitialOperatingPoints}

\* xs and us of an operating point have num_time_steps_ entries.
OperatingPointWellSized(op) ==
  /\ Cardinality(DOMAIN op.xs) = NumTimeSteps
  /\ Cardinality(DOMAIN op.us) = NumTimeSteps

\* The two DCHECKs on initial_strategies (lines 67-75): one strategy per
\* player, each with num_time_steps_ gains and offsets.
StrategiesWellSized(strategies) ==
  /\ Cardinality(DOMAIN strategies) = NumPlayers
  /\ \A ii \in DOMAIN strategies :
       /\ Cardinality(DOMAIN strategies[ii].Ps) = NumTimeSteps
       /\ Cardinality(DOMAIN strategies[ii].alphas) = NumTimeSteps

\* Whether a DCHECK of lines 68-75 ends the program: DCHECK is compiled to
\* nothing in a build with NDEBUG.
DChecksAbort(game, strategies) ==
  game.build = "debug" /\ ~ StrategiesWellSized(strategies)

\* The trajectory of the game from x0 under the constant control u of every
\* player: the rollout of zero gains and offsets -u about a zero operating
\* point.
OpenLoopTrajectory(game, x0, u) ==
  CurrentOperatingPoint(game, x0,
    [xs |-> [kk \in Steps |-> ConstVec(XDim, FloatZero)],
     us |-> [kk \in Steps |-> [ii \in Players |-> ConstVec(UDim, FloatZero)]]],
    [ii \in Players |->
      [Ps |-> [kk \in Steps |->
                [r \in 1 .. UDim |-> ConstVec(XDim, FloatZero)]],
       alphas |-> [kk \in Steps |-> ConstVec(UDim, FloatNeg(u))]]],
    EmptyOperatingPoint).op

\* Whether every element of the strategies that CurrentOperatingPoint reads
\* (lines 189-195) exists.
ReadsInBounds(strategies) ==
  /\ Players \subseteq DOMAIN strategies
  /\ \A ii \in Players :
       /\ Steps \subseteq DOMAIN strategies[ii].Ps
       /\ Steps \subseteq DOMAIN strategies[ii].alphas

\* The values a read past the end of alphas is followed with when it
\* yields a vector of UDim rows: zero, a small and a large one.  A read
\* that yields anything else (vectors of 33 and of 49 rows are among what
\* a release build reads there) leaves the run undefined.
Garbage == {Hundredths(0), Hundredths(7), Hundredths(0 - 150)}

\* The strategies as CurrentOperatingPoint reads them when the reads past
\* the end of alphas yield g.
ReadWithGarbage(strategies, g) ==
  [ii \in DOMAIN strategies |->
    [Ps |-> strategies[ii].Ps,
     alphas |-> [kk \in Steps \cup DOMAIN strategies[ii].alphas |->
                  IF kk \in DOMAIN strategies[ii].alphas
                  THEN strategies[ii].alphas[kk]
                  ELSE ConstVec(UDim, g)]]]

\* ------------------------------------------------ ComputeStrategyCosts
\* PlayerCost::IsExponentiated(&a): writes the exponential constant of the
\* cost to *a and tells whether it is non-zero (zero disables the
\* exponentiation).
IsExponentiated(cost) == [result |-> cost.a # FloatZero, a |-> cost.a]

\* PlayerCost::Evaluate(t, x, us) of a player's cost: a state cost on the
\* player's own state component, a cost on its own control, and a
\* time-varying term.
Evaluate(cost, t, x, us) ==
  FloatAdd(FloatAdd(Abs(x[cost.player + 1]), VecSum(CwiseAbs(us[cost.player]))),
           FloatMul(Float(3), t))

\* PlayerCost::EvaluateOffset(t, next_t, next_x, us): the state cost taken
\* at the next state and time, the control cost at the controls applied.
EvaluateOffset(cost, t, next_t, next_x, us) ==
  FloatAdd(FloatAdd(Abs(next_x[cost.player + 1]),
                    VecSum(CwiseAbs(us[cost.player]))),
           FloatMul(Float(3), next_t))

\* Player ii's exponentiation setting compared to player 0's flag alone.
AgreesWithFront_FlagOnly(player_costs, ii) ==
  IsExponentiated(player_costs[0]).result
    = IsExponentiated(player_costs[ii]).result

\* CHECK_EQ(is_exponentiated, player_costs[ii].IsExponentiated(&a_prime));
\* CHECK_EQ(a, a_prime);
\* The second compares two floats with ==, which is false of the NaN and
\* itself.
AgreesWithFront(player_costs, ii) ==
  /\ IsExponentiated(player_costs[0]).result
       = IsExponentiated(player_costs[ii]).result
  /\ ~ IsNaN(IsExponentiated(player_costs[0]).a)
  /\ ~ IsNaN(IsExponentiated(player_costs[ii]).a)
  /\ IsExponentiated(player_costs[0]).a = IsExponentiated(player_costs[ii]).a

\* strategies[0].Ps.size()
NumGains(strategies) == Cardinality(DOMAIN strategies[0].Ps)

\* num_time_steps = (open_loop) ? strategies[0].Ps.size() - 1
\*                              : strategies[0].Ps.size();
CostNumTimeSteps(strategies, open_loop) ==
  IF open_loop THEN NumGains(strategies) - 1 ELSE NumGains(strategies)

\* a < b for two size_t values.  A size_t is kept as the integer with the
\* same 64 bits in two's complement: 0 - 1 stands for 2^64 - 1, the value of
\* the unsigned computation 0 - 1, and is above every size that is not
\* negative.
SizeLess(a, b) == IF (a < 0) = (b < 0) THEN a < b ELSE b < 0

\* Pass kk of the loop reads strategies[ii].Ps[kk], .alphas[kk] and
\* operating_point.us[kk][ii] of every player, and operating_point.xs[kk] in
\* closed loop, within the vectors.
CostReadsInBounds(strategies, operating_point, open_loop, kk) ==
  /\ \A ii \in Players :
       /\ kk \in DOMAIN strategies[ii].Ps
       /\ kk \in DOMAIN strategies[ii].alphas
  /\ kk \in DOMAIN operating_point.us
  /\ IF open_loop THEN TRUE ELSE kk \in DOMAIN operating_point.xs

\* The passes of the loop that are followed once its reads have left the
\* vectors; the loop makes more of them (thousands, on empty vectors, before
\* a read ends the program), which are not followed.
MaxUndefinedSteps == 3

\* The controls a pass whose reads are past the end of strategies and
\* operating_point is followed with: for every player a control of length
\* zero (the memory read holds a vector that was never constructed, and the
\* difference takes its size from alphas[kk]), or a control of UDim rows of
\* some value.
GarbageControls ==
  {[ii \in Players |-> <<>>]}
    \cup {[ii \in Players |-> ConstVec(UDim, g)] : g \in Garbage}

\* The state deviation taken as zero in both modes.
StrategyDeltaX_AlwaysOpen(open_loop, x, operating_point, kk) ==
  ConstVec(Len(x), FloatZero)

\* The state deviation taken as x - operating_point.xs[kk] in both modes.
StrategyDeltaX_AlwaysClosed(open_loop, x, operating_point, kk) ==
  VecSub(x, operating_point.xs[kk])

\* The state deviation handed to the strategies: VectorXf::Zero(x.size())
\* in open loop, x - operating_point.xs[kk] otherwise.
StrategyDeltaX(open_loop, x, operating_point, kk) ==
  IF open_loop THEN ConstVec(Len(x), FloatZero)
  ELSE VecSub(x, operating_point.xs[kk])

\* us[ii] = strategies[ii](kk, <deviation>, operating_point.us[kk][ii]) for
\* every player.
CostControls(strategies, operating_point, open_loop, kk, x) ==
  [ii \in Players |->
    StrategyApply(strategies[ii], kk,
                  StrategyDeltaX(open_loop, x, operating_point, kk),
                  operating_point.us[kk][ii])]

\* The cost of the state before integration charged in both modes.
StageCost_AlwaysBefore(cost, open_loop, t, x, next_t, next_x, us) ==
  Evaluate(cost, t, x, us)

\* cost = (open_loop) ? EvaluateOffset(t, next_t, next_x, us)
\*                     : Evaluate(t, x, us);
StageCost(cost, open_loop, t, x, next_t, next_x, us) ==
  IF open_loop THEN EvaluateOffset(cost, t, next_t, next_x, us)
  ELSE Evaluate(cost, t, x, us)

\* A float total that is a sum of plain costs and of exponentials:
\* plain + exp(exps[1]) + ... + exp(exps[n]).  The value of std::exp is not
\* computed; a total keeps the exponents of its terms.
ZeroTotal == [plain |-> FloatZero, exps |-> <<>>]

\* std::exp of a float is zero below log(2^-150) = -103.972...: the float
\* -0x1.9fe368p6 is the least one whose exponential rounds to the least
\* positive float, 2^-149.
kExpUnderflow == [m |-> 0 - 13627828, e |-> 0 - 17]

\* std::exp(v) == 0.0f
ExpIsZero(v) == FloatLess(v, kExpUnderflow)

\* The exponential taken of the cost itself, the constant left out.
Accumulate_NoConstant(total, is_exponentiated, a, cost) ==
  IF is_exponentiated
  THEN [total EXCEPT !.exps = Append(@, cost)]
  ELSE [total EXCEPT !.plain = FloatAdd(@, cost)]

\* total_costs[ii] += (is_exponentiated) ? std::exp(a * cost) : cost;
Accumulate(total, is_exponentiated, a, cost) ==
  IF is_exponentiated
  THEN [total EXCEPT !.exps = Append(@, FloatMul(a, cost))]
  ELSE [total EXCEPT !.plain = FloatAdd(@, cost)]

\* c > 0.0 for a total c: the sum of a plain part that is not negative and
\* of exponentials is positive when the plain part is, or when one of the
\* exponentials has not underflowed to zero.  The exponential of the NaN
\* is the NaN and makes the total the NaN, which is not above zero.
TotalPositive(total) ==
  /\ \A n \in DOMAIN total.exps : ~ IsNaN(total.exps[n])
  /\ IF total.plain = FloatZero
     THEN \E n \in DOMAIN total.exps : ~ ExpIsZero(total.exps[n])
     ELSE FloatLess(FloatZero, total.plain)

\* The value returned for one player: std::log(c) / a of the total when the
\* costs are exponentiated, the total itself otherwise.
ReturnedCost(total, is_exponentiated, a) ==
  IF is_exponentiated
  THEN [kind |-> "log_over_a", of |-> total, a |-> a]
  ELSE [kind |-> "total", of |-> total]

\* Player costs: one per player, each with its exponential constant.
PlayerCosts ==
  {[ii \in Players |-> [player |-> ii, a |-> as[ii]]] :
     as \in [Players -> {Float(0 - 1), Float(0), Float(1), Float(2)}]}

\* Strategies and an operating point over n time steps, constant in time,
\* the offsets taken from the hundredths in offsets.
CostStrategies(n, offsets) ==
  {[ii \in Players |->
     [Ps |-> [kk \in 0 .. n - 1 |->
               [r \in 1 .. UDim |-> ConstVec(XDim, Float(p))]],
      alphas |-> [kk \in 0 .. n - 1 |-> ConstVec(UDim, Hundredths(al))]]] :
     p \in {0, 1}, al \in offsets}

CostOperatingPoints(n) ==
  {[xs |-> [kk \in 0 .. n - 1 |-> ConstVec(XDim, Hundredths(ox))],
    us |-> [kk \in 0 .. n - 1 |->
             [ii \in Players |-> ConstVec(UDim, Hundredths(20))]]] :
     ox \in {0, 5}}

\* The longest horizon ComputeStrategyCosts is called on: long enough for
\* the time accumulated by t = next_t to leave kk * time_step.
LongHorizon == 9

\* Calls over the long horizon: a time step of 0.1, no float multiple of
\* which is exact, offsets that are zero or cancel the reference controls,
\* and all players' costs plain or all exponentiated with constant 1.
LongHorizonCostArguments ==
  [player_costs : {[ii \in Players |-> [player |-> ii, a |-> a]] :
                     a \in {Float(0), Float(1)}},
   strategies : CostStrategies(LongHorizon, {0, 20}),
   operating_point : CostOperatingPoints(LongHorizon),
   dynamics : [drift : {Hundredths(0), Hundredths(1)}],
   x0 : X0s,
   time_step : {Hundredths(10)},
   open_loop : BOOLEAN]

\* The arguments of a call of ComputeStrategyCosts: horizons of one to
\* NumTimeSteps steps with time steps of 1 and of -40; the long horizon
\* with its time step of 0.1; and calls over two steps from a start that
\* is infinite or the NaN, or with the NaN as every player's exponential
\* constant.
CostArguments ==
  UNION {[player_costs : PlayerCosts,
          strategies : CostStrategies(n, {0, 10}),
          operating_point : CostOperatingPoints(n),
          dynamics : [drift : {Hundredths(0), Hundredths(1)}],
          x0 : X0s,
          time_step : {Float(1), Float(0 - 40)},
          open_loop : BOOLEAN] : n \in 1 .. NumTimeSteps}
    \cup LongHorizonCostArguments
    \cup [player_costs : {[ii \in Players |-> [player |-> ii, a |-> a]] :
                            a \in {Float(1), FloatNaN}},
          strategies : CostStrategies(2, {0}),
          operating_point : CostOperatingPoints(2),
          dynamics : [drift : {Hundredths(0)}],
          x0 : {ConstVec(XDim, FloatNaN), ConstVec(XDim, FloatInf(1)),
                ConstVec(XDim, Hundredths(11))},
          time_step : {Float(1)},
          open_loop : BOOLEAN]

\* Arguments whose strategies and operating point span no time step.
EmptyHorizonCostArguments ==
  [player_costs : PlayerCosts,
   strategies : CostStrategies(0, {0, 10}),
   operating_point : CostOperatingPoints(0),
   dynamics : [drift : {Hundredths(0), Hundredths(1)}],
   x0 : X0s,
   time_step : {Float(1)},
   open_loop : BOOLEAN]

\* ---------------------------------------------- SinglePlayerUnicycle5D
kNumXDims == 5
kPxIdx == 0
kPyIdx == 1
kThetaIdx == 2
kVIdx == 3
kSIdx == 4
kNumUDims == 2
kOmegaIdx == 0
kAIdx == 1

\* Headings are kept as the pair of their cosine and sine, both in fifths,
\* so that std::cos and std::sin are exact: the headings whose cosine and
\* sine are multiples of 1/5.  Everything computed from them (time
\* derivatives, Jacobians) is in fifths as well.
TrigUnit == 5
Headings ==
  {h \in (0 - TrigUnit .. TrigUnit) \X (0 - TrigUnit .. TrigUnit) :
     h[1] * h[1] + h[2] * h[2] = TrigUnit * TrigUnit}

\* std::cos(theta) and std::sin(theta), in fifths.
Cos(theta) == theta[1]
Sin(theta) == theta[2]

\* SinglePlayerUnicycle5D::Evaluate(t, x, u): the time derivative of the
\* state, in fifths.
UnicycleEvaluate(t, x, u) ==
  [i \in 0 .. kNumXDims - 1 |->
    IF i = kPxIdx THEN x[kVIdx] * Cos(x[kThetaIdx])
    ELSE IF i = kPyIdx THEN x[kVIdx] * Sin(x[kThetaIdx])
    ELSE IF i = kThetaIdx THEN TrigUnit * u[kOmegaIdx]
    ELSE IF i = kVIdx THEN TrigUnit * u[kAIdx]
    ELSE TrigUnit * x[kVIdx]]

\* Linearize with the sign of the heading derivative of the x velocity
\* lost.
UnicycleLinearize_SignLost(t, time_step, x, u, A, B) ==
  LET ctheta == Cos(x[kThetaIdx]) * time_step
      stheta == Sin(x[kThetaIdx]) * time_step
  IN [A |-> [A EXCEPT ![kPxIdx][kThetaIdx] = @ + x[kVIdx] * stheta,
                      ![kPxIdx][kVIdx] = @ + ctheta,
                      ![kPyIdx][kThetaIdx] = @ + x[kVIdx] * ctheta,
                      ![kPyIdx][kVIdx] = @ + stheta,
                      ![kSIdx][kVIdx] = @ + TrigUnit * time_step],
      B |-> [B EXCEPT ![kThetaIdx][kOmegaIdx] = TrigUnit * time_step,
                      ![kVIdx][kAIdx] = TrigUnit * time_step]]

\* The five entries of A overwritten with the increments.
UnicycleLinearize_OverwritesA(t, time_step, x, u, A, B) ==
  LET ctheta == Cos(x[kThetaIdx]) * time_step
      stheta == Sin(x[kThetaIdx]) * time_step
  IN [A |-> [A EXCEPT ![kPxIdx][kThetaIdx] = (0 - x[kVIdx]) * stheta,
                      ![kPxIdx][kVIdx] = ctheta,
                      ![kPyIdx][kThetaIdx] = x[kVIdx] * ctheta,
                      ![kPyIdx][kVIdx] = stheta,
                      ![kSIdx][kVIdx] = TrigUnit * time_step],
      B |-> [B EXCEPT ![kThetaIdx][kOmegaIdx] = TrigUnit * time_step,
                      ![kVIdx][kAIdx] = TrigUnit * time_step]]

\* SinglePlayerUnicycle5D::Linearize(t, time_step, x, u, A, B): A and B as
\* the call leaves them, in fifths.
UnicycleLinearize(t, time_step, x, u, A, B) ==
  LET ctheta == Cos(x[kThetaIdx]) * time_step
      stheta == Sin(x[kThetaIdx]) * time_step
  IN [A |-> [A EXCEPT ![kPxIdx][kThetaIdx] = @ + (0 - x[kVIdx]) * stheta,
                      ![kPxIdx][kVIdx] = @ + ctheta,
                      ![kPyIdx][kThetaIdx] = @ + x[kVIdx] * ctheta,
                      ![kPyIdx][kVIdx] = @ + stheta,
                      ![kSIdx][kVIdx] = @ + TrigUnit * time_step],
      B |-> [B EXCEPT ![kThetaIdx][kOmegaIdx] = TrigUnit * time_step,
                      ![kVIdx][kAIdx] = TrigUnit * time_step]]

\* Matrices handed to Linearize, in fifths: the identity, zero, and a
\* matrix of ones.
IdentityMatrix(n) ==
  [i \in 0 .. n - 1 |-> [j \in 0 .. n - 1 |-> IF i = j THEN TrigUnit ELSE 0]]

FilledMatrix(rows, cols, v) ==
  [i \in 0 .. rows - 1 |-> [j \in 0 .. cols - 1 |-> v]]

\* The arguments of a call of Linearize.
UnicycleStates ==
  {[i \in 0 .. kNumXDims - 1 |->
     IF i = kThetaIdx THEN theta ELSE IF i = kVIdx THEN v ELSE p] :
     theta \in Headings, v \in {0 - 2, 0, 3}, p \in {0, 4}}

UnicycleControls ==
  {[i \in 0 .. kNumUDims - 1 |-> IF i = kOmegaIdx THEN omega ELSE acc] :
     omega \in {0, 1}, acc \in {0, 2}}

UnicycleArguments ==
  [t : {0}, time_step : {1, 2}, x : UnicycleStates, u : UnicycleControls,
   A : {IdentityMatrix(kNumXDims),
        FilledMatrix(kNumXDims, kNumXDims, TrigUnit)},
   B : {FilledMatrix(kNumXDims, kNumUDims, 0),
        FilledMatrix(kNumXDims, kNumUDims, TrigUnit)}]

\* The distance taken along the track as well.
DistanceBetween_AlongTrack(x0, x1) ==
  LET dx == FloatSub(x0[kPxIdx], x1[kPxIdx])
      dy == FloatSub(x0[kPyIdx], x1[kPyIdx])
      ds == FloatSub(x0[kSIdx], x1[kSIdx])
  IN FloatAdd(FloatAdd(FloatMul(dx, dx), FloatMul(dy, dy)), FloatMul(ds, ds))

\* SinglePlayerUnicycle5D::DistanceBetween(x0, x1):
\*   const float dx = x0(kPxIdx) - x1(kPxIdx);
\*   const float dy = x0(kPyIdx) - x1(kPyIdx);
\*   return dx * dx + dy * dy;
DistanceBetween(x0, x1) ==
  LET dx == FloatSub(x0[kPxIdx], x1[kPxIdx])
      dy == FloatSub(x0[kPyIdx], x1[kPyIdx])
  IN FloatAdd(FloatMul(dx, dx), FloatMul(dy, dy))

\* The coordinates of the positions DistanceBetween is called on: whole
\* numbers on both sides of the origin, 0.1, the tiny 2^-80 and 2^-75, the
\* huge 2^64, the largest float below it, an infinity and the NaN.
DistanceCoordinates ==
  {Float(0 - 3), Float(0), Float(4), Hundredths(10),
   PowerOfTwo(0 - 80), PowerOfTwo(0 - 75), PowerOfTwo(64),
   [m |-> 16777215, e |-> 40], FloatInf(1), FloatNaN}

\* The headings, speeds and lengths of track of the states DistanceBetween
\* is called on.
DistanceMotions ==
  [theta : {<<5, 0>>, <<3, 4>>}, v : {Float(0), Float(3)},
   len : {Float(0), Float(6)}]

\* The state at position (px, py) in motion mo.
DistanceState(px, py, mo) ==
  [i \in 0 .. kNumXDims - 1 |->
    IF i = kPxIdx THEN px ELSE IF i = kPyIdx THEN py
    ELSE IF i = kThetaIdx THEN mo.theta ELSE IF i = kVIdx THEN mo.v
    ELSE mo.len]

\* The states DistanceBetween is called on.
DistanceStates ==
  {DistanceState(px, py, mo) :
     px \in DistanceCoordinates,
     py \in {Float(0), Float(4), PowerOfTwo(0 - 80)},
     mo \in DistanceMotions}

\* ------------------ ThreePlayerCollisionAvoidanceReachabilityExample
\* A state dimension of the concatenated system, kept as the subsystem it
\* belongs to and the dimension within it: kP2XIdx = P1::kNumXDims +
\* P2::kPxIdx is dimension kPxIdx of subsystem 1.
StateIdx(block, dim) == [block |-> block, dim |-> dim]

kP1XIdx == StateIdx(0, "kPxIdx")
kP1YIdx == StateIdx(0, "kPyIdx")
kP2XIdx == StateIdx(1, "kPxIdx")
kP2YIdx == StateIdx(1, "kPyIdx")
kP3XIdx == StateIdx(2, "kPxIdx")
kP3YIdx == StateIdx(2, "kPyIdx")

\* PlayerCost(name): no state cost, no control cost, not exponentiated.
PlayerCost(name) ==
  [name |-> name, state_costs |-> <<>>, control_costs |-> <<>>,
   a |-> FloatZero]

\* PlayerCost::AddStateCost(cost)
AddStateCost(player_cost, cost) ==
  [player_cost EXCEPT !.state_costs = Append(@, cost)]

\* PlayerCost::AddControlCost(idx, cost)
AddControlCost(player_cost, idx, cost) ==
  [player_cost EXCEPT
     !.control_costs = Append(@, [idx |-> idx, cost |-> cost])]

\* PlayerCost::SetExponentialConstant(a)
SetExponentialConstant(player_cost, a) == [player_cost EXCEPT !.a = a]

\* QuadraticCost(weight, dim, nominal, name)
QuadraticCost(weight, dim, nominal, name) ==
  [weight |-> weight, dim |-> dim, nominal |-> nominal, name |-> name]

\* SignedDistanceCost({x1, y1}, {x2, y2}, nominal, name)
SignedDistanceCost(position1, position2, nominal, name) ==
  [position1 |-> position1, position2 |-> position2, nominal |-> nominal,
   name |-> name]

\* const auto control_cost = std::make_shared<QuadraticCost>(
\*     params.control_cost_weight, -1, 0.0, "Steering");
control_cost(params) ==
  QuadraticCost(params.control_cost_weight, 0 - 1, FloatZero, "Steering")

\* The three collision-avoidance costs, nominal_distance = 2.0.
p1_p2_collision_avoidance_cost ==
  SignedDistanceCost(<<kP1XIdx, kP1YIdx>>, <<kP2XIdx, kP2YIdx>>, Float(2),
                     "P1P2CollisionAvoidance")

p1_p3_collision_avoidance_cost ==
  SignedDistanceCost(<<kP1XIdx, kP1YIdx>>, <<kP3XIdx, kP3YIdx>>, Float(2),
                     "P1P3CollisionAvoidance")

p2_p3_collision_avoidance_cost ==
  SignedDistanceCost(<<kP2XIdx, kP2YIdx>>, <<kP3XIdx, kP3YIdx>>, Float(2),
                     "P2P3CollisionAvoidance")

\* Every control cost put on control 0.
ControlStatements_AllOnFirst(params) ==
  << [op |-> "AddControlCost", on |-> "p1_cost", idx |-> 0,
      cost |-> control_cost(params)],
     [op |-> "AddControlCost", on |-> "p2_cost", idx |-> 0,
      cost |-> control_cost(params)],
     [op |-> "AddControlCost", on |-> "p3_cost", idx |-> 0,
      cost |-> control_cost(params)] >>

\* p1_cost.AddControlCost(0, control_cost); p2_cost.AddControlCost(1, ...);
\* p3_cost.AddControlCost(2, ...);
ControlStatements(params) ==
  << [op |-> "AddControlCost", on |-> "p1_cost", idx |-> 0,
      cost |-> control_cost(params)],
     [op |-> "AddControlCost", on |-> "p2_cost", idx |-> 1,
      cost |-> control_cost(params)],
     [op |-> "AddControlCost", on |-> "p3_cost", idx |-> 2,
      cost |-> control_cost(params)] >>

\* The six AddStateCost statements: each collision-avoidance cost is added
\* to the costs of the two players it names.
CollisionStatements ==
  << [op |-> "AddStateCost", on |-> "p1_cost",
      cost |-> p1_p2_collision_avoidance_cost],
     [op |-> "AddStateCost", on |-> "p2_cost",
      cost |-> p1_p2_collision_avoidance_cost],
     [op |-> "AddStateCost", on |-> "p1_cost",
      cost |-> p1_p3_collision_avoidance_cost],
     [op |-> "AddStateCost", on |-> "p3_cost",
      cost |-> p1_p3_collision_avoidance_cost],
     [op |-> "AddStateCost", on |-> "p2_cost",
      cost |-> p2_p3_collision_avoidance_cost],
     [op |-> "AddStateCost", on |-> "p3_cost",
      cost |-> p2_p3_collision_avoidance_cost] >>

\* Only the first player's cost exponentiated.
ExponentialStatements_FrontOnly(params) ==
  << [op |-> "SetExponentialConstant", on |-> "p1_cost",
      a |-> params.exponential_constant] >>

\* pN_cost.SetExponentialConstant(params.exponential_constant); N = 1, 2, 3
ExponentialStatements(params) ==
  << [op |-> "SetExponentialConstant", on |-> "p1_cost",
      a |-> params.exponential_constant],
     [op |-> "SetExponentialConstant", on |-> "p2_cost",
      a |-> params.exponential_constant],
     [op |-> "SetExponentialConstant", on |-> "p3_cost",
      a |-> params.exponential_constant] >>

\* The statements of the constructor that build the player costs, in order.
ExampleStatements(params) ==
  ControlStatements(params) \o CollisionStatements
    \o ExponentialStatements(params)

\* The solver parameters the example is constructed with.
SolverParams ==
  [exponential_constant : {Float(a) : a \in {0 - 1, 0, 1, 3, 10}},
   control_cost_weight : {Float(w) : w \in {0, 1, 10}}]

\* ------------------------------------------------------- run_ilqgames
\* The calls of run_ilqgames followed in one MATLAB session.
MaxCalls == 2

\* experiment_name = exec + "_" + scale + "_" + control_penalty + x0_flag;
\* numbers are given as the strings MATLAB converts them to.
ExperimentName(args) ==
  args.exec \o "_" \o args.scale \o "_" \o args.control_penalty
    \o args.x0_flag

\* char(experiment_name + extra_suffix): the name looked for in the logs
\* folder and the folder the results are read from.
FolderName(args) == ExperimentName(args) \o args.extra_suffix

\* The command line handed to system().
Instruction(args) ==
  "../bin/" \o args.exec \o " --trust_region_size=0.1 --noviz "
    \o "--save" \o args.extra_suffix \o " --last_traj"
    \o " --experiment_name='" \o FolderName(args) \o "'"
    \o " --exponential_constant=" \o args.scale
    \o " --convergence_tolerance=0.01 --control_penalty="
    \o args.control_penalty \o " --initial_alpha_scaling=0.05 "
    \o args.x0_flag

\* cd(path) from the working directory cwd: a directory is the sequence of
\* folder names below the root of the repository, a path a sequence of
\* names and "..".
RECURSIVE Cd(_, _)
Cd(cwd, path) ==
  IF path = <<>> THEN cwd
  ELSE IF Head(path) = ".."
       THEN Cd(SubSeq(cwd, 1, Len(cwd) - 1), Tail(path))
       ELSE Cd(Append(cwd, Head(path)), Tail(path))

\* The name of an entry of a folder, kept as its first character and the
\* rest, so that name(1) is read and not taken for granted.
EntryName(first, rest) == [first |-> first, rest |-> rest]

\* dirs(ii).name as a string.
NameOf(entry) == entry.first \o entry.rest

\* dir in a folder: "." and "..", then the entries of the folder in the
\* order of their names.
Dir(entries) == <<EntryName(".", ""), EntryName(".", ".")>> \o entries

\* The logs folder is kept as the function from the names of its entries to
\* the entries of each, in the order of dir, "." and ".." left out.  A
\* directory exists when it is matlab, logs or an entry of logs.
DirectoryExists(logs, directory) ==
  \/ directory = <<"matlab">>
  \/ directory = <<"logs">>
  \/ Len(directory) = 2 /\ directory[1] = "logs"
       /\ directory[2] \in DOMAIN logs

\* No experiment counted as run, whatever the logs folder holds.
experiment_already_run_Never(logs, cwd, folder_name) ==
  [exists |-> FALSE, cwd |-> Cd(Cd(cwd, <<"..", "logs">>), <<"..", "matlab">>)]

\* experiment_already_run(folder_name): whether an entry of ../logs has the
\* name; the working directory goes to ../logs and back to ../matlab.
experiment_already_run(logs, cwd, folder_name) ==
  [exists |-> folder_name \in DOMAIN logs,
   cwd |-> Cd(Cd(cwd, <<"..", "logs">>), <<"..", "matlab">>)]

\* last_iterate after the loop of lines 388-394: the name of the first
\* entry of the listing whose name does not start with a dot, "blah" when
\* there is none.
RECURSIVE LastIterate(_)
LastIterate(dirs) ==
  IF Len(dirs) = 0 THEN "blah"
  ELSE IF Head(dirs).first # "." THEN NameOf(Head(dirs))
  ELSE LastIterate(Tail(dirs))

\* load(<folder>/<last_iterate>/<file>) finds its file: the folder has an
\* iterate of that name.
IterateExists(entries, last_iterate) ==
  \E n \in DOMAIN entries :
    /\ NameOf(entries[n]) = last_iterate
    /\ entries[n].first # "."

\* What the folder of an experiment can hold: nothing, the iterate the
\* executable saved, and the file a file manager leaves in a folder it has
\* shown.
Listings ==
  {<<>>,
   <<EntryName("0", "05")>>,
   <<EntryName(".", "DS_Store"), EntryName("0", "05")>>,
   <<EntryName(".", "DS_Store")>>}

\* The arguments run_ilqgames is called with.
RunArguments ==
  [exec : {"one_player_reachability_example",
           "two_player_reachability_example"},
   extra_suffix : {"", "_feedback"},
   scale : {"1"},
   control_penalty : {"1"},
   x0_flag : {"", "--px0=1 --py0=0"}]

\* The logs folder when the session starts: empty, or with the folder of an
\* earlier run, complete or without any iterate.
InitialLogs ==
  {<<>>}
    \cup {[n \in {FolderName(args)} |-> listing] :
            args \in RunArguments, listing \in Listings}

\* --------------------------------------------------------------- state
VARIABLES
  game,                     \* the solver object Solve is called on
  x0,                       \* argument x0
  initial_operating_point,  \* argument initial_operating_point
  initial_strategies,       \* argument initial_strategies
  has_log,                  \* whether argument log is non-null
  pc,                       \* where Solve is
  num_iterations,
  last_operating_point,
  current_operating_point,
  current_strategies,
  linearization,
  quadraticization,
  log,                      \* *log, the iterates added so far
  final_operating_point,    \* *final_operating_point
  final_strategies,         \* *final_strategies
  returned,                 \* what Solve returned by value, once pc = "done"
  events,                   \* steps of the loop body run since the last check
  integrate_calls           \* calls of Integrate made by the last rollout

VARIABLES
  cost_args,                \* the arguments of a call of ComputeStrategyCosts
  cost_run,                 \* where that call is, and its local variables
  linearize_call            \* a call of SinglePlayerUnicycle5D::Linearize

VARIABLES
  example,                  \* the three-player example under construction
  distance_call,            \* a call of SinglePlayerUnicycle5D::DistanceBetween
  matlab                    \* the MATLAB session of make_reachability_figures

inputs == <<game, x0, initial_operating_point, initial_strategies, has_log>>

locals ==
  <<num_iterations, last_operating_point, current_operating_point,
    current_strategies, linearization, quadraticization>>

outputs == <<log, final_operating_point, final_strategies, returned>>

solve_vars == <<inputs, pc, locals, outputs, events, integrate_calls>>

cost_vars == <<cost_args, cost_run>>

aux_vars == <<example, distance_call, matlab>>

vars == <<solve_vars, cost_vars, linearize_call, aux_vars>>

\* The constructor of the three-player example is not running.
NoExample == example = [pc |-> "idle"]

\* No call of SinglePlayerUnicycle5D::DistanceBetween is under way.
NoDistanceCall == distance_call = [pc |-> "idle"]

\* No MATLAB session is open.
NoMatlab == matlab = [pc |-> "idle"]

NoAuxCalls == NoExample /\ NoDistanceCall /\ NoMatlab

\* No call of SinglePlayerUnicycle5D::Linearize is under way.
NoLinearizeCall == linearize_call = [pc |-> "idle"]

\* No call of ComputeStrategyCosts is under way.
NoCostCall ==
  /\ cost_args = <<>>
  /\ cost_run = [pc |-> "idle"]

\* No call of Solve is under way.
NoSolveCall ==
  /\ game = <<>>
  /\ x0 = <<>>
  /\ initial_operating_point = <<>>
  /\ initial_strategies = <<>>
  /\ has_log = FALSE
  /\ pc = "idle"
  /\ num_iterations = 0
  /\ last_operating_point = <<>>
  /\ current_operating_point = <<>>
  /\ current_strategies = <<>>
  /\ linearization = <<>>
  /\ quadraticization = <<>>
  /\ log = <<>>
  /\ final_operating_point = <<>>
  /\ final_strategies = <<>>
  /\ returned = <<>>
  /\ events = <<>>
  /\ integrate_calls = <<>>

\* What the caller's output arguments hold before the call.
CallerOperatingPoint == EmptyOperatingPoint
CallerStrategies == <<>>

\* Solve from its entry up to the first evaluation of the loop condition
\* (lines 64-104), on the arguments held by the input variables.
EnterSolve ==
  /\ pc = IF DChecksAbort(game, initial_strategies) THEN "aborted" ELSE "check"
  /\ num_iterations = 0
  /\ last_operating_point = EmptyOperatingPoint
  /\ current_operating_point = initial_operating_point
  /\ current_strategies = initial_strategies
  /\ linearization = [kk \in Steps |-> <<>>]
  /\ quadraticization = [kk \in Steps |-> [ii \in Players |-> <<>>]]
  /\ log = IF has_log /\ ~ DChecksAbort(game, initial_strategies)
           THEN <<[operating_point |-> initial_operating_point,
                   strategies |-> initial_strategies]>>
           ELSE <<>>
  /\ final_operating_point = CallerOperatingPoint
  /\ final_strategies = CallerStrategies
  /\ returned = <<>>
  /\ events = <<>>
  /\ integrate_calls = <<>>

\* Solve called on well-sized arguments by a solver of the base class.
Init ==
  /\ game \in Games
  /\ x0 \in X0s
  /\ initial_operating_point \in InitialOperatingPoints
  /\ initial_strategies \in InitialStrategies
  /\ has_log \in BOOLEAN
  /\ EnterSolve
  /\ NoCostCall
  /\ NoLinearizeCall
  /\ NoAuxCalls

\* The operating point of the iteration before handed back on convergence.
CheckConverged_ReturnsLast ==
  /\ pc = "check"
  /\ IF HasConverged(num_iterations, last_operating_point,
                     current_operating_point)
     THEN /\ final_strategies' = current_strategies
          /\ final_operating_point' = last_operating_point
          /\ current_strategies' = final_strategies
          /\ current_operating_point' = final_operating_point
          /\ returned' = [success |-> TRUE]
          /\ pc' = "done"
     ELSE /\ pc' = "rollout"
          /\ UNCHANGED <<final_strategies, final_operating_point,
                         current_strategies, current_operating_point,
                         returned>>
  /\ events' = <<>>
  /\ UNCHANGED <<inputs, num_iterations, last_operating_point, linearization,
                 quadraticization, log, integrate_calls>>

\* The loop condition: while (!HasConverged(...)); when it has converged,
\* the final swaps and return true (lines 107-108, 161-165).
CheckConverged ==
  /\ pc = "check"
  /\ IF HasConverged(num_iterations, last_operating_point,
                     current_operating_point)
     THEN /\ final_strategies' = current_strategies
          /\ final_operating_point' = current_operating_point
          /\ current_strategies' = final_strategies
          /\ current_operating_point' = final_operating_point
          /\ returned' = [success |-> TRUE]
          /\ pc' = "done"
     ELSE /\ pc' = "rollout"
          /\ UNCHANGED <<final_strategies, final_operating_point,
                         current_strategies, current_operating_point,
                         returned>>
  /\ events' = <<>>
  /\ UNCHANGED <<inputs, num_iterations, last_operating_point, linearization,
                 quadraticization, log, integrate_calls>>

\* The rollout with last_operating_point taken after CurrentOperatingPoint
\* has run, as a copy of its result, rather than swapped before it.
Rollout_CopiesAfter ==
  /\ pc = "rollout"
  /\ ReadsInBounds(current_strategies)
  /\ num_iterations' = num_iterations + 1
  /\ \E r \in {CurrentOperatingPoint(game, x0, current_operating_point,
                                      current_strategies,
                                      last_operating_point)} :
        /\ last_operating_point' = r.op
        /\ current_operating_point' = r.op
        /\ integrate_calls' = r.calls
  /\ events' = Append(events, "rollout")
  /\ pc' = "linearize"
  /\ UNCHANGED <<inputs, current_strategies, linearization, quadraticization,
                 outputs>>

\* num_iterations++, swap, CurrentOperatingPoint (lines 109-116).
Rollout ==
  /\ pc = "rollout"
  /\ ReadsInBounds(current_strategies)
  /\ num_iterations' = num_iterations + 1
  /\ \E r \in {CurrentOperatingPoint(game, x0, current_operating_point,
                                      current_strategies,
                                      last_operating_point)} :
        /\ last_operating_point' = current_operating_point
        /\ current_operating_point' = r.op
        /\ integrate_calls' = r.calls
  /\ events' = Append(events, "rollout")
  /\ pc' = "linearize"
  /\ UNCHANGED <<inputs, current_strategies, linearization, quadraticization,
                 outputs>>

\* The events of one pass of the loop over kk (lines 122-143).
RECURSIVE LinQuadEvents(_)
LinQuadEvents(n) ==
  IF n = 0 THEN <<>>
  ELSE LinQuadEvents(n - 1) \o <<"linearize">>
         \o [ii \in 1 .. NumPlayers |-> "quadraticize"]

\* The linearization and quadraticization taken at the operating point of
\* the iteration before.
LinearizeQuadraticize_AtLast ==
  /\ pc = "linearize"
  /\ linearization' =
       [kk \in Steps |->
         Linearize(game, ComputeTimeStamp(game, kk), game.time_step,
                   last_operating_point.xs[kk],
                   last_operating_point.us[kk])]
  /\ quadraticization' =
       [kk \in Steps |-> [ii \in Players |->
         Quadraticize(ii, ComputeTimeStamp(game, kk),
                      last_operating_point.xs[kk],
                      last_operating_point.us[kk])]]
  /\ events' = events \o LinQuadEvents(NumTimeSteps)
  /\ pc' = "solve"
  /\ UNCHANGED <<inputs, num_iterations, last_operating_point,
                 current_operating_point, current_strategies, outputs,
                 integrate_calls>>

\* Linearize the dynamics and quadraticize the costs at every time step
\* (lines 120-143).
LinearizeQuadraticize ==
  /\ pc = "linearize"
  /\ linearization' =
       [kk \in Steps |->
         Linearize(game, ComputeTimeStamp(game, kk), game.time_step,
                   current_operating_point.xs[kk],
                   current_operating_point.us[kk])]
  /\ quadraticization' =
       [kk \in Steps |-> [ii \in Players |->
         Quadraticize(ii, ComputeTimeStamp(game, kk),
                      current_operating_point.xs[kk],
                      current_operating_point.us[kk])]]
  /\ events' = events \o LinQuadEvents(NumTimeSteps)
  /\ pc' = "solve"
  /\ UNCHANGED <<inputs, num_iterations, last_operating_point,
                 current_operating_point, current_strategies, outputs,
                 integrate_calls>>

\* current_strategies = SolveLQGame(...) (lines 147-149).
SolveLQ ==
  /\ pc = "solve"
  /\ current_strategies' = SolveLQGame(game, linearization, quadraticization)
  /\ events' = Append(events, "solve")
  /\ pc' = "modify"
  /\ UNCHANGED <<inputs, num_iterations, last_operating_point,
                 current_operating_point, linearization, quadraticization,
                 outputs, integrate_calls>>

\* The modification followed directly by the next check, the logging left out.
Modify_SkipsLog ==
  /\ pc = "modify"
  /\ LET m == CallModifyLQStrategies(game, current_operating_point,
                                      current_strategies)
     IN /\ current_strategies' = m.strategies
        /\ IF m.ok
           THEN pc' = "check" /\ UNCHANGED returned
           ELSE pc' = "done" /\ returned' = [success |-> FALSE]
  /\ events' = Append(events, "modify")
  /\ UNCHANGED <<inputs, num_iterations, last_operating_point,
                 current_operating_point, linearization, quadraticization,
                 log, final_operating_point, final_strategies,
                 integrate_calls>>

\* The value returned by ModifyLQStrategies ignored: the loop goes on.
Modify_IgnoresFailure ==
  /\ pc = "modify"
  /\ LET m == CallModifyLQStrategies(game, current_operating_point,
                                      current_strategies)
     IN current_strategies' = m.strategies
  /\ pc' = "log"
  /\ events' = Append(events, "modify")
  /\ UNCHANGED <<inputs, num_iterations, last_operating_point,
                 current_operating_point, linearization, quadraticization,
                 outputs, integrate_calls>>

\* The failed iterate handed back through the output arguments before the
\* return of false.
Modify_HandsBackFailed ==
  /\ pc = "modify"
  /\ LET m == CallModifyLQStrategies(game, current_operating_point,
                                      current_strategies)
     IN /\ current_strategies' = m.strategies
        /\ IF m.ok
           THEN /\ pc' = "log"
                /\ UNCHANGED <<returned, final_operating_point,
                               final_strategies>>
           ELSE /\ pc' = "done"
                /\ returned' = [success |-> FALSE]
                /\ final_operating_point' = current_operating_point
                /\ final_strategies' = m.strategies
  /\ events' = Append(events, "modify")
  /\ UNCHANGED <<inputs, num_iterations, last_operating_point,
                 current_operating_point, linearization, quadraticization,
                 log, integrate_calls>>

\* if (!ModifyLQStrategies(...)) return false; (lines 153-155).
Modify ==
  /\ pc = "modify"
  /\ LET m == CallModifyLQStrategies(game, current_operating_point,
                                      current_strategies)
     IN /\ current_strategies' = m.strategies
        /\ IF m.ok
           THEN pc' = "log" /\ UNCHANGED returned
           ELSE pc' = "done" /\ returned' = [success |-> FALSE]
  /\ events' = Append(events, "modify")
  /\ UNCHANGED <<inputs, num_iterations, last_operating_point,
                 current_operating_point, linearization, quadraticization,
                 log, final_operating_point, final_strategies,
                 integrate_calls>>

\* The iterate written over the last entry of the log.
LogIterate_Overwrites ==
  /\ pc = "log"
  /\ log' = IF has_log
            THEN [log EXCEPT ![Len(log)] =
                    [operating_point |-> current_operating_point,
                     strategies |-> current_strategies]]
            ELSE log
  /\ events' = Append(events, "log")
  /\ pc' = "check"
  /\ UNCHANGED <<inputs, locals, final_operating_point, final_strategies,
                 returned, integrate_calls>>

\* if (log) log->AddSolverIterate(...) (lines 157-158).
LogIterate ==
  /\ pc = "log"
  /\ log' = IF has_log
            THEN Append(log, [operating_point |-> current_operating_point,
                              strategies |-> current_strategies])
            ELSE log
  /\ events' = Append(events, "log")
  /\ pc' = "check"
  /\ UNCHANGED <<inputs, locals, final_operating_point, final_strategies,
                 returned, integrate_calls>>

\* The steps of Solve; a call of Solve leaves the variables of the other
\* functions alone.
Next ==
  \/ CheckConverged /\ UNCHANGED <<cost_vars, linearize_call, aux_vars>>
  \/ Rollout /\ UNCHANGED <<cost_vars, linearize_call, aux_vars>>
  \/ LinearizeQuadraticize /\ UNCHANGED <<cost_vars, linearize_call, aux_vars>>
  \/ SolveLQ /\ UNCHANGED <<cost_vars, linearize_call, aux_vars>>
  \/ Modify /\ UNCHANGED <<cost_vars, linearize_call, aux_vars>>
  \/ LogIterate /\ UNCHANGED <<cost_vars, linearize_call, aux_vars>>

Spec == Init /\ [][Next]_vars

\* Solve called on a solver that can fail: a derived class whose
\* ModifyLQStrategies gives up outside its trust region, or a game whose
\* S(k) can be singular.
InitFailures ==
  /\ game \in FailureGames
  /\ x0 \in X0s
  /\ initial_operating_point \in InitialOperatingPoints
  /\ initial_strategies \in InitialStrategies
  /\ has_log \in BOOLEAN
  /\ EnterSolve
  /\ NoCostCall
  /\ NoLinearizeCall
  /\ NoAuxCalls

SpecFailures == InitFailures /\ [][Next]_vars

\* Solve called on a game that is already LQ, from an operating point that
\* is a trajectory of the game under zero or constant controls, or is not
\* a trajectory of the game.
InitLQ ==
  /\ game \in LQGames
  /\ x0 \in X0s
  /\ initial_operating_point \in
       InitialOperatingPoints
         \cup {OpenLoopTrajectory(game, x0, Hundredths(u)) : u \in {0, 400}}
  /\ initial_strategies \in InitialStrategies
  /\ has_log \in BOOLEAN
  /\ EnterSolve
  /\ NoCostCall
  /\ NoLinearizeCall
  /\ NoAuxCalls

SpecLQ == InitLQ /\ [][Next]_vars

\* The rollout of lines 109-116 when a strategy has fewer offsets than time
\* steps: num_iterations++, the swap, and the passes of the loop of
\* CurrentOperatingPoint up to the one in which strategy.alphas[kk] is read
\* past its end, which is undefined.  The program is ended by the read,
\* with the operating point written and Integrate called up to there; or
\* the read yields a vector of another size or of other contents, the
\* arithmetic on it is undefined in turn, and the run is undefined from
\* the read on: it is not followed further and can end in any way, a
\* return of true after any number of iterations included; or the read
\* yields a vector of UDim rows and the rollout goes on with it.
RolloutUndefined ==
  /\ pc = "rollout"
  /\ ~ ReadsInBounds(current_strategies)
  /\ num_iterations' = num_iterations + 1
  /\ last_operating_point' = current_operating_point
  /\ events' = Append(events, "rollout")
  /\ \/ \E r \in {CurrentOperatingPoint(game, x0, current_operating_point,
                        current_strategies, last_operating_point)} :
          /\ current_operating_point' = r.op
          /\ integrate_calls' = r.calls
          /\ pc' \in {"crashed", "undefined"}
     \/ \E g \in Garbage :
          \E r \in {CurrentOperatingPoint(game, x0, current_operating_point,
                        ReadWithGarbage(current_strategies, g),
                        last_operating_point)} :
            /\ current_operating_point' = r.op
            /\ integrate_calls' = r.calls
            /\ pc' = "linearize"
  /\ UNCHANGED <<inputs, current_strategies, linearization, quadraticization,
                 outputs>>

\* Solve called, in a debug or a release build, on initial strategies and
\* an initial operating point of any size.
InitConfig ==
  /\ game \in ConfigGames
  /\ x0 \in X0s
  /\ initial_operating_point \in AnySizeOperatingPoints
  /\ initial_strategies \in AnySizeStrategies
  /\ has_log \in BOOLEAN
  /\ EnterSolve
  /\ NoCostCall
  /\ NoLinearizeCall
  /\ NoAuxCalls

NextConfig == Next \/ (RolloutUndefined /\ UNCHANGED <<cost_vars, linearize_call, aux_vars>>)

SpecConfig == InitConfig /\ [][NextConfig]_vars

\* ------------------------------------------- ComputeStrategyCosts steps
\* A call of ComputeStrategyCosts before its first statement.
CostCallEntered ==
  [pc |-> "start", x |-> <<>>, t |-> FloatZero, a |-> FloatZero,
   is_exponentiated |-> FALSE,
   total_costs |-> <<>>, num_time_steps |-> 0, kk |-> 0, trace |-> <<>>,
   failed_check |-> "", returned |-> <<>>]

\* The head of ComputeStrategyCosts (lines 66-84): the start of the walk,
\* the exponentiation setting of player 0, the CHECK_EQs against every
\* other player, the zero totals and the number of steps.
CostStart ==
  /\ cost_run.pc = "start"
  /\ LET front == IsExponentiated(cost_args.player_costs[0])
     IN IF \A ii \in 1 .. NumPlayers - 1 :
             AgreesWithFront(cost_args.player_costs, ii)
        THEN cost_run' =
               [cost_run EXCEPT
                  !.pc = "loop",
                  !.x = cost_args.x0,
                  !.t = FloatZero,
                  !.a = front.a,
                  !.is_exponentiated = front.result,
                  !.total_costs = [ii \in Players |-> ZeroTotal],
                  !.num_time_steps =
                     CostNumTimeSteps(cost_args.strategies,
                                      cost_args.open_loop),
                  !.kk = 0]
        ELSE cost_run' = [cost_run EXCEPT !.pc = "aborted",
                                          !.failed_check = "CHECK_EQ"]
  /\ UNCHANGED cost_args

\* The body of a pass with the controls us (lines 94-111): the next state
\* and time, the stage cost of every player added to its total, the state
\* and the time moved on.
CostPass(us) ==
  \E next_x \in {Integrate(cost_args.dynamics, cost_run.t,
                           cost_args.time_step, cost_run.x, us)} :
    \E next_t \in {FloatAdd(cost_run.t, cost_args.time_step)} :
      \E cost \in {[ii \in Players |->
                      StageCost(cost_args.player_costs[ii],
                                cost_args.open_loop, cost_run.t, cost_run.x,
                                next_t, next_x, us)]} :
        cost_run' =
          [cost_run EXCEPT
             !.total_costs =
                [ii \in Players |->
                  Accumulate(cost_run.total_costs[ii],
                             cost_run.is_exponentiated, cost_run.a, cost[ii])],
             !.x = next_x,
             !.t = next_t,
             !.kk = cost_run.kk + 1,
             !.trace = Append(@, [kk |-> cost_run.kk, t |-> cost_run.t,
                                  x |-> cost_run.x, us |-> us,
                                  next_t |-> next_t, next_x |-> next_x,
                                  cost |-> cost])]

\* One pass of the loop over kk (lines 85-111): the controls, the next
\* state and time, the stage cost of every player added to its total.
CostStep ==
  /\ cost_run.pc = "loop"
  /\ SizeLess(cost_run.kk, cost_run.num_time_steps)
  /\ CostReadsInBounds(cost_args.strategies, cost_args.operating_point,
                       cost_args.open_loop, cost_run.kk)
  /\ CostPass(CostControls(cost_args.strategies, cost_args.operating_point,
                           cost_args.open_loop, cost_run.kk, cost_run.x))
  /\ UNCHANGED cost_args

\* After the loop (lines 113-122): with exponentiated costs, CHECK_GT on
\* the constant and on every total, and log(c) / a of every total; the
\* totals are returned.
CostFinish ==
  /\ cost_run.pc = "loop"
  /\ ~ SizeLess(cost_run.kk, cost_run.num_time_steps)
  /\ IF cost_run.is_exponentiated /\ ~ FloatLess(FloatZero, cost_run.a)
     THEN cost_run' = [cost_run EXCEPT !.pc = "aborted",
                                       !.failed_check = "CHECK_GT(a, 0.0)"]
     ELSE IF /\ cost_run.is_exponentiated
             /\ \E ii \in Players : ~ TotalPositive(cost_run.total_costs[ii])
     THEN cost_run' = [cost_run EXCEPT !.pc = "aborted",
                                       !.failed_check = "CHECK_GT(c, 0.0)"]
     ELSE cost_run' =
            [cost_run EXCEPT
               !.pc = "returned",
               !.returned =
                  [ii \in Players |->
                    ReturnedCost(cost_run.total_costs[ii],
                                 cost_run.is_exponentiated, cost_run.a)]]
  /\ UNCHANGED cost_args

\* ComputeStrategyCosts called on player costs, strategies and an operating
\* point over one to NumTimeSteps time steps, in closed and in open loop.
InitCosts ==
  /\ NoSolveCall
  /\ cost_args \in CostArguments
  /\ cost_run = CostCallEntered
  /\ NoLinearizeCall
  /\ NoAuxCalls

NextCosts ==
  \/ CostStart /\ UNCHANGED <<solve_vars, linearize_call, aux_vars>>
  \/ CostStep /\ UNCHANGED <<solve_vars, linearize_call, aux_vars>>
  \/ CostFinish /\ UNCHANGED <<solve_vars, linearize_call, aux_vars>>

SpecCosts == InitCosts /\ [][NextCosts]_vars

\* A pass of the loop whose reads of strategies and operating_point are
\* past the end of the vectors (lines 89-93): undefined behaviour.  The
\* program is ended by a read; or the reads yield some controls and the
\* pass goes on with them; or the loop goes on in a way that is not
\* followed (controls of other sizes, or passes beyond MaxUndefinedSteps),
\* to end in any pass later.  The program can be ended in every pass.
CostStepUndefined ==
  /\ cost_run.pc = "loop"
  /\ SizeLess(cost_run.kk, cost_run.num_time_steps)
  /\ ~ CostReadsInBounds(cost_args.strategies, cost_args.operating_point,
                         cost_args.open_loop, cost_run.kk)
  /\ \/ cost_run' = [cost_run EXCEPT !.pc = "crashed"]
     \/ cost_run' = [cost_run EXCEPT !.pc = "undefined"]
     \/ \E us \in IF cost_run.kk < MaxUndefinedSteps
                   THEN GarbageControls ELSE {} : CostPass(us)
  /\ UNCHANGED cost_args

\* ComputeStrategyCosts called over any horizon, the empty one included.
InitCostsAnyHorizon ==
  /\ NoSolveCall
  /\ cost_args \in CostArguments \cup EmptyHorizonCostArguments
  /\ cost_run = CostCallEntered
  /\ NoLinearizeCall
  /\ NoAuxCalls

NextCostsAnyHorizon ==
  \/ NextCosts
  \/ CostStepUndefined /\ UNCHANGED <<solve_vars, linearize_call, aux_vars>>

SpecCostsAnyHorizon == InitCostsAnyHorizon /\ [][NextCostsAnyHorizon]_vars

\* Linearize called once more with the same arguments on the matrices the
\* first call left.
CallUnicycleLinearizeAgain ==
  /\ linearize_call.pc = "returned"
  /\ LET args == linearize_call.args
         out == UnicycleLinearize(args.t, args.time_step, args.x, args.u,
                                  linearize_call.A, linearize_call.B)
     IN linearize_call' =
          [pc |-> "returned_again", args |-> args,
           first |-> [A |-> linearize_call.A, B |-> linearize_call.B],
           A |-> out.A, B |-> out.B]
  /\ UNCHANGED <<solve_vars, cost_vars, aux_vars>>

\* ------------------------------------- SinglePlayerUnicycle5D::Linearize
\* The call of Linearize: A and B are written in place.
CallUnicycleLinearize ==
  /\ linearize_call.pc = "called"
  /\ LET args == linearize_call.args
         out == UnicycleLinearize(args.t, args.time_step, args.x, args.u,
                                  args.A, args.B)
     IN linearize_call' =
          [linearize_call EXCEPT !.pc = "returned", !.A = out.A, !.B = out.B]
  /\ UNCHANGED <<solve_vars, cost_vars, aux_vars>>

\* Linearize called at a state and control of the unicycle, on matrices
\* prepared by the caller.
InitUnicycle ==
  /\ NoSolveCall
  /\ NoCostCall
  /\ NoAuxCalls
  /\ \E args \in UnicycleArguments :
       linearize_call = [pc |-> "called", args |-> args,
                         A |-> args.A, B |-> args.B]

NextUnicycle == CallUnicycleLinearize \/ CallUnicycleLinearizeAgain

SpecUnicycle == InitUnicycle /\ [][NextUnicycle]_vars

\* ------------------------------ SinglePlayerUnicycle5D::DistanceBetween
CallDistanceBetween ==
  /\ distance_call.pc = "called"
  /\ distance_call' =
       [distance_call EXCEPT
          !.pc = "returned",
          !.result = DistanceBetween(distance_call.x0, distance_call.x1)]
  /\ UNCHANGED <<solve_vars, cost_vars, linearize_call, example, matlab>>

InitDistance ==
  /\ NoSolveCall
  /\ NoCostCall
  /\ NoLinearizeCall
  /\ NoExample
  /\ NoMatlab
  /\ \E xa \in DistanceStates : \E xb \in DistanceStates :
       distance_call =
         [pc |-> "called", x0 |-> xa, x1 |-> xb, result |-> FloatZero]

NextDistance == CallDistanceBetween

SpecDistance == InitDistance /\ [][NextDistance]_vars

\* ------------------------------------------------------- run_ilqgames
\* The MATLAB session at its prompt, in the matlab folder.
SessionOpened(logs) ==
  [pc |-> "prompt", cwd |-> <<"matlab">>, logs |-> logs, calls |-> 0,
   launches |-> <<>>, args |-> <<>>, existed |-> FALSE, launched |-> FALSE,
   reads |-> <<>>, status |-> "none"]

\* run_ilqgames is called: the names are built and experiment_already_run
\* looks for the folder (lines 372-376).
RunCheck ==
  /\ matlab.pc = "prompt"
  /\ matlab.calls < MaxCalls
  /\ \E args \in RunArguments :
       \E found \in {experiment_already_run(matlab.logs, matlab.cwd,
                                            FolderName(args))} :
         matlab' = [matlab EXCEPT
                      !.pc = IF found.exists THEN "read" ELSE "launch",
                      !.cwd = found.cwd,
                      !.calls = @ + 1,
                      !.args = args,
                      !.existed = found.exists,
                      !.launched = FALSE,
                      !.reads = <<>>,
                      !.status = "running"]
  /\ UNCHANGED <<solve_vars, cost_vars, linearize_call, example, distance_call>>

\* system(char(instruction)): the executable runs to its end.  It either
\* saves its last iterate in a folder of the logs folder named by
\* --experiment_name, or ends without leaving anything there.
RunLaunch ==
  /\ matlab.pc = "launch"
  /\ \E saved \in BOOLEAN :
       matlab' = [matlab EXCEPT
                    !.pc = "read",
                    !.launched = TRUE,
                    !.launches =
                       Append(@, [instruction |-> Instruction(matlab.args),
                                  name |-> FolderName(matlab.args),
                                  saved |-> saved]),
                    !.logs =
                       IF saved
                       THEN [n \in DOMAIN matlab.logs
                                     \cup {FolderName(matlab.args)} |->
                              IF n = FolderName(matlab.args)
                              THEN <<EntryName("0", "05")>>
                              ELSE matlab.logs[n]]
                       ELSE matlab.logs]
  /\ UNCHANGED <<solve_vars, cost_vars, linearize_call, example, distance_call>>

\* The rest of run_ilqgames (lines 384-403): cd into the folder of the
\* experiment, pick the first entry of dir whose name does not start with
\* a dot, cd back, load xs.txt and costs.txt.  cd to a folder that does not
\* exist and load of a file that does not exist end the call with an error.
RunRead ==
  /\ matlab.pc = "read"
  /\ LET name == FolderName(matlab.args)
         folder == Cd(matlab.cwd, <<"..", "logs", name>>)
     IN IF ~ DirectoryExists(matlab.logs, folder)
        THEN matlab' = [matlab EXCEPT !.pc = "prompt",
                                      !.status = "error in cd"]
        ELSE LET last_iterate == LastIterate(Dir(matlab.logs[name]))
                 back == Cd(folder, <<"..", "..", "matlab">>)
             IN IF ~ IterateExists(matlab.logs[name], last_iterate)
                THEN matlab' = [matlab EXCEPT !.pc = "prompt",
                                              !.cwd = back,
                                              !.status = "error in load"]
                ELSE matlab' =
                       [matlab EXCEPT
                          !.pc = "prompt",
                          !.cwd = back,
                          !.reads =
                             <<"../logs/" \o name \o "/" \o last_iterate
                                 \o "/xs.txt",
                               "../logs/" \o name \o "/" \o last_iterate
                                 \o "/costs.txt">>,
                          !.status = "done"]
  /\ UNCHANGED <<solve_vars, cost_vars, linearize_call, example, distance_call>>

InitMatlab ==
  /\ NoSolveCall
  /\ NoCostCall
  /\ NoLinearizeCall
  /\ NoExample
  /\ NoDistanceCall
  /\ \E logs \in InitialLogs : matlab = SessionOpened(logs)

NextMatlab == RunCheck \/ RunLaunch \/ RunRead

SpecMatlab == InitMatlab /\ [][NextMatlab]_vars

\* ------------------ ThreePlayerCollisionAvoidanceReachabilityExample
\* PlayerCost p1_cost("P1"), p2_cost("P2"), p3_cost("P3");
ExampleEntered(params) ==
  [pc |-> "constructing", params |-> params, done |-> 0,
   costs |-> [p1_cost |-> PlayerCost("P1"), p2_cost |-> PlayerCost("P2"),
              p3_cost |-> PlayerCost("P3")],
   player_costs |-> <<>>]

\* The statement the constructor is at.
AtStatement(op) ==
  /\ example.pc = "constructing"
  /\ example.done < Len(ExampleStatements(example.params))
  /\ ExampleStatements(example.params)[example.done + 1].op = op

ExampleAddControlCost ==
  /\ AtStatement("AddControlCost")
  /\ \E st \in {ExampleStatements(example.params)[example.done + 1]} :
       example' = [example EXCEPT
                     !.done = @ + 1,
                     !.costs[st.on] = AddControlCost(@, st.idx, st.cost)]
  /\ UNCHANGED <<solve_vars, cost_vars, linearize_call, distance_call, matlab>>

ExampleAddStateCost ==
  /\ AtStatement("AddStateCost")
  /\ \E st \in {ExampleStatements(example.params)[example.done + 1]} :
       example' = [example EXCEPT
                     !.done = @ + 1,
                     !.costs[st.on] = AddStateCost(@, st.cost)]
  /\ UNCHANGED <<solve_vars, cost_vars, linearize_call, distance_call, matlab>>

ExampleSetExponentialConstant ==
  /\ AtStatement("SetExponentialConstant")
  /\ \E st \in {ExampleStatements(example.params)[example.done + 1]} :
       example' = [example EXCEPT
                     !.done = @ + 1,
                     !.costs[st.on] = SetExponentialConstant(@, st.a)]
  /\ UNCHANGED <<solve_vars, cost_vars, linearize_call, distance_call, matlab>>

\* solver_.reset(new ILQSolver(dynamics, {p1_cost, p2_cost, p3_cost}, ...));
ExampleMakeSolver ==
  /\ example.pc = "constructing"
  /\ example.done = Len(ExampleStatements(example.params))
  /\ example' = [example EXCEPT
                   !.pc = "constructed",
                   !.player_costs =
                     [ii \in 0 .. 2 |->
                       IF ii = 0 THEN example.costs.p1_cost
                       ELSE IF ii = 1 THEN example.costs.p2_cost
                       ELSE example.costs.p3_cost]]
  /\ UNCHANGED <<solve_vars, cost_vars, linearize_call, distance_call, matlab>>

InitExample ==
  /\ NoSolveCall
  /\ NoCostCall
  /\ NoLinearizeCall
  /\ NoDistanceCall
  /\ NoMatlab
  /\ \E params \in SolverParams : example = ExampleEntered(params)

NextExample ==
  \/ ExampleAddControlCost
  \/ ExampleAddStateCost
  \/ ExampleSetExponentialConstant
  \/ ExampleMakeSolver

SpecExample == InitExample /\ [][NextExample]_vars

\* ========================================================== properties

\* The elementwise trajectory test of the convergence monitor, stated
\* component by component.
WithinTolerance(last, current) ==
  \A kk \in Steps :
    /\ \A j \in 1 .. XDim :
         ~ FloatLess(Hundredths(10),
                     Abs(FloatSub(current.xs[kk][j], last.xs[kk][j])))
    /\ \A ii \in Players : \A c \in 1 .. UDim :
         ~ FloatLess(Hundredths(10),
                     Abs(FloatSub(current.us[kk][ii][c], last.us[kk][ii][c])))

\* The cap ended the loop although the trajectory test is not met.
TimedOut ==
  /\ pc = "done"
  /\ num_iterations = kMaxIterations
  /\ ~ WithinTolerance(last_operating_point, final_operating_point)

\* The steps of one whole iteration, in the order claimed.
LinQuadCount == NumTimeSteps * (1 + NumPlayers)
IterationSteps ==
  [n \in 1 .. (LinQuadCount + 4) |->
    IF n = 1 THEN "rollout"
    ELSE IF n <= 1 + LinQuadCount
         THEN IF (n - 2) % (1 + NumPlayers) = 0 THEN "linearize"
              ELSE "quadraticize"
    ELSE IF n = LinQuadCount + 2 THEN "solve"
    ELSE IF n = LinQuadCount + 3 THEN "modify"
    ELSE "log"]

\* How many of the steps of the current iteration have run at each place.
StepsRun ==
  CASE pc = "rollout" -> 0
    [] pc = "linearize" -> 1
    [] pc = "solve" -> 1 + LinQuadCount
    [] pc = "modify" -> 2 + LinQuadCount
    [] pc = "log" -> 3 + LinQuadCount
    [] pc = "check" -> IF num_iterations = 0 THEN 0 ELSE 4 + LinQuadCount
    [] OTHER -> 0

\* C1: in every iteration of Solve the rollout, the linearization and
\* quadraticization at all T time steps, SolveLQGame, ModifyLQStrategies and
\* the logging step run in this order, none skipped, and HasConverged is
\* evaluated again only after all of them: wherever Solve is, the steps run
\* since the last check are exactly the leading steps of that order, and the
\* check is reached holding all of them.
C1_IterationOrder ==
  /\ events = SubSeq(IterationSteps, 1, StepsRun)
  /\ (pc = "check" /\ num_iterations >= 1 /\ has_log)
       => log[Len(log)] = [operating_point |-> current_operating_point,
                           strategies |-> current_strategies]

C1_Witness ==
  /\ pc = "check"
  /\ num_iterations >= 2
  /\ Len(events) = LinQuadCount + 4
  /\ events[Len(events)] = "log"

\* A measure of the work Solve has left: the iterations the cap still allows,
\* six steps each, and the steps left of the current one.
WorkLeft ==
  6 * (kMaxIterations - num_iterations)
    + (CASE pc = "linearize" -> 10
         [] pc = "solve" -> 9
         [] pc = "modify" -> 8
         [] pc = "log" -> 7
         [] pc = "check" -> 6
         [] pc = "rollout" -> 5
         [] OTHER -> 0)

\* C2: Solve terminates for every input: it is always at one of the places
\* of the loop, each of which has a step that nothing blocks, or has
\* returned; every step lowers a measure that never goes below zero; the
\* loop body runs at most 50 times; and when the cap of 50 is reached without
\* the trajectory test being met, Solve still returns true.
C2_Terminates ==
  /\ [](pc \in {"check", "rollout", "linearize", "solve", "modify", "log",
                "done"})
  /\ [](WorkLeft >= 0)
  /\ [][WorkLeft' < WorkLeft]_vars
  /\ [](num_iterations <= 50)
  /\ [](TimedOut => returned.success = TRUE)

C2_Witness ==
  /\ TimedOut
  /\ num_iterations = 50
  /\ returned.success = TRUE

\* C3: when the cap is reached without the convergence test being met,
\* Solve returns success with the final iterate (the operating point the
\* last iteration linearized about) and a flag indicating timeout, so that
\* a caller can tell a timeout from a genuine convergence.
C3_ReturnsTimeoutFlag ==
  TimedOut =>
    /\ returned.success = TRUE
    /\ \A kk \in Steps :
         /\ final_operating_point.xs[kk] = linearization[kk].x
         /\ final_operating_point.us[kk] = linearization[kk].us
    /\ "timeout" \in DOMAIN returned
    /\ returned.timeout = TRUE

\* C4: for every iteration count n with 1 <= n < 50, HasConverged(n, last,
\* current) is true exactly when every component of every state difference
\* and of every player's control difference, at every time step, is at most
\* 0.1 in absolute value; a difference of exactly 0.1 counts as converged.
C4_ConvergedIffWithinTolerance ==
  (pc = "check" /\ 1 <= num_iterations /\ num_iterations < 50) =>
    (HasConverged(num_iterations, last_operating_point,
                  current_operating_point)
       <=> WithinTolerance(last_operating_point, current_operating_point))

C4_Witness ==
  /\ pc = "check"
  /\ 1 <= num_iterations
  /\ num_iterations < 50
  /\ HasConverged(num_iterations, last_operating_point,
                  current_operating_point)
  /\ \E kk \in Steps : \E ii \in Players : \E c \in 1 .. UDim :
       Abs(FloatSub(current_operating_point.us[kk][ii][c],
                    last_operating_point.us[kk][ii][c])) = Hundredths(10)

\* C5: convergence is only ever declared on an iteration n >= 1:
\* HasConverged(0, last, current) is false whatever the operating points
\* (the scratch operating point it is handed is still empty), so Solve
\* always performs at least one rollout and one LQ solve, even when the
\* initial operating point already is a fixed point.
C5_NoConvergenceAtZero ==
  /\ (pc = "check" /\ num_iterations = 0) =>
       /\ ~ HasConverged(0, last_operating_point, current_operating_point)
       /\ ~ HasConverged(0, current_operating_point, current_operating_point)
  /\ (pc = "done" /\ returned.success) =>
       /\ num_iterations >= 1
       /\ \A kk \in Steps : DOMAIN linearization[kk] # {}
       /\ Len(integrate_calls) >= 1
       /\ \A ii \in Players : final_strategies[ii] =
            ModifyLQStrategies(final_operating_point,
              SolveLQGame(game, linearization, quadraticization)).strategies[ii]

\* The initial operating point is a fixed point of the first rollout, and
\* Solve has returned after one iteration.
C5_Witness ==
  /\ pc = "done"
  /\ returned.success
  /\ num_iterations = 1
  /\ final_operating_point = initial_operating_point

\* Solve holds the operating point of a rollout it has made.
RolledOut ==
  /\ num_iterations >= 1
  /\ pc \in {"linearize", "solve", "modify", "log", "check"}

\* C6: for every time step k and every player i the rollout records the
\* control u_i(k) = u_last_i(k) - P_i(k) * (x(k) - x_last(k)) - alpha_i(k),
\* x(k) being the state it records at step k of the new operating point.
C6_RolloutControls ==
  pc \in {"linearize", "solve"} =>
    \A kk \in Steps : \A ii \in Players : \A c \in 1 .. UDim :
      current_operating_point.us[kk][ii][c] =
        FloatSub(
          FloatSub(last_operating_point.us[kk][ii][c],
                   Dot(current_strategies[ii].Ps[kk][c],
                       [j \in 1 .. XDim |->
                         FloatSub(current_operating_point.xs[kk][j],
                                  last_operating_point.xs[kk][j])])),
          current_strategies[ii].alphas[kk][c])

\* A rollout in which a gain met a state deviation and an offset was applied.
C6_Witness ==
  /\ pc = "linearize"
  /\ \E kk \in Steps : \E ii \in Players :
       /\ current_strategies[ii].alphas[kk][1] # FloatZero
       /\ Dot(current_strategies[ii].Ps[kk][1],
              [j \in 1 .. XDim |->
                FloatSub(current_operating_point.xs[kk][j],
                         last_operating_point.xs[kk][j])]) # FloatZero

\* C7: after every rollout the new operating point has xs[0] = x0 and, for
\* every k in 0..T-2, xs[k+1] = Integrate(t_k, time_step, xs[k], us[k]) with
\* the controls recorded at step k; Integrate is called exactly T-1 times,
\* once for each of these steps and never for the last step k = T-1.
C7_RolloutFidelity ==
  RolledOut =>
    /\ current_operating_point.xs[0] = x0
    /\ \A kk \in 0 .. (NumTimeSteps - 2) :
         current_operating_point.xs[kk + 1] =
           Integrate(game, ComputeTimeStamp(game, kk), game.time_step, current_operating_point.xs[kk],
                     current_operating_point.us[kk])
    /\ Len(integrate_calls) = NumTimeSteps - 1
    /\ \A n \in 1 .. Len(integrate_calls) :
         /\ integrate_calls[n].t = ComputeTimeStamp(game, n - 1)
         /\ integrate_calls[n].time_step = game.time_step
         /\ integrate_calls[n].x = current_operating_point.xs[n - 1]
         /\ integrate_calls[n].us = current_operating_point.us[n - 1]

\* A rollout whose integration moved the state, drift included.
C7_Witness ==
  /\ RolledOut
  /\ game.drift # FloatZero
  /\ current_operating_point.xs[1] # current_operating_point.xs[0]
  /\ current_operating_point.xs[2] # current_operating_point.xs[1]
  /\ Len(integrate_calls) = NumTimeSteps - 1

\* C8: the log is append-only: Solve first appends the initial pair, then
\* appends exactly one (current_operating_point, current_strategies) pair per
\* completed iteration, never modifies or removes an earlier entry, and on a
\* successful return holds exactly (number of iterations + 1) <= 51 entries.
C8_LogAppendOnly ==
  /\ [](has_log =>
          /\ Len(log) >= 1
          /\ log[1] = [operating_point |-> initial_operating_point,
                       strategies |-> initial_strategies])
  /\ [][has_log =>
          IF pc = "log"
          THEN log' = Append(log, [operating_point |-> current_operating_point,
                                   strategies |-> current_strategies])
          ELSE log' = log]_vars
  /\ []((has_log /\ pc \in {"check", "rollout"}) =>
          Len(log) = num_iterations + 1)
  /\ []((has_log /\ pc = "done" /\ returned.success) =>
          /\ Len(log) = num_iterations + 1
          /\ Len(log) <= 51)

C8_Witness ==
  /\ has_log
  /\ pc = "done"
  /\ returned.success
  /\ Len(log) = 51
  /\ log[51] # log[50]

\* C9: the default ModifyLQStrategies never changes any feedback gain: for
\* every player i and every time step k, P_i(k) after the call equals P_i(k)
\* before the call; only the alphas change.
C9_ModifyKeepsGains ==
  [][pc = "modify" =>
       /\ DOMAIN current_strategies' = DOMAIN current_strategies
       /\ \A ii \in DOMAIN current_strategies :
            current_strategies'[ii].Ps = current_strategies[ii].Ps
       /\ current_operating_point' = current_operating_point]_vars

\* A modification that left a non-zero gain alone and changed an offset.
C9_Witness ==
  /\ pc = "log"
  /\ \E ii \in Players : \E kk \in Steps :
       /\ current_strategies[ii].Ps[kk][1][ii + 1] # FloatZero
       /\ current_strategies[ii].Ps[kk] =
            SolveLQGame(game, linearization, quadraticization)[ii].Ps[kk]
       /\ current_strategies[ii].alphas[kk] #
            SolveLQGame(game, linearization, quadraticization)[ii].alphas[kk]

\* C10: the default ModifyLQStrategies multiplies every alpha_i(k), for
\* every player i and every time step k, by one and the same constant
\* gamma = 0.05, which lies in (0, 1], keeps the number of strategies and the
\* number of time steps of each strategy unchanged, and always returns true
\* (Solve goes on to log the iterate).
C10_ModifyScalesAlphas ==
  [][pc = "modify" =>
       /\ DOMAIN current_strategies' = DOMAIN current_strategies
       /\ \A ii \in DOMAIN current_strategies :
            /\ DOMAIN current_strategies'[ii].Ps
                 = DOMAIN current_strategies[ii].Ps
            /\ DOMAIN current_strategies'[ii].alphas
                 = DOMAIN current_strategies[ii].alphas
            /\ \A kk \in DOMAIN current_strategies[ii].alphas :
                 /\ Len(current_strategies'[ii].alphas[kk])
                      = Len(current_strategies[ii].alphas[kk])
                 /\ \A c \in 1 .. Len(current_strategies[ii].alphas[kk]) :
                      current_strategies'[ii].alphas[kk][c]
                        = FloatMul(current_strategies[ii].alphas[kk][c],
                                   Hundredths(5))
       /\ FloatLess(FloatZero, Hundredths(5))
       /\ ~ FloatLess(Float(1), Hundredths(5))
       /\ pc' = "log"
       /\ returned' = returned]_vars

\* A modification has scaled the offset 20 * 0.11f of the LQ solution by
\* 0.05f.
C10_Witness ==
  /\ pc = "log"
  /\ \E ii \in Players : \E kk \in Steps :
       /\ SolveLQGame(game, linearization, quadraticization)[ii].alphas[kk][1]
            = FloatMul(Float(20), Hundredths(11))
       /\ current_strategies[ii].alphas[kk][1]
            = FloatMul(FloatMul(Float(20), Hundredths(11)), Hundredths(5))

\* C11: when the call of ModifyLQStrategies made in some iteration returns
\* false, Solve returns false in that very step: the iterate is not logged,
\* the outputs are not written, no further iteration is counted, and no step
\* of Solve follows the return.
C11_ModifierFailureReturnsFalse ==
  /\ [][(/\ pc = "modify"
          /\ ~ CallModifyLQStrategies(game, current_operating_point,
                                       current_strategies).ok) =>
         /\ pc' = "done"
         /\ DOMAIN returned' = {"success"}
         /\ returned'.success = FALSE
         /\ log' = log
         /\ num_iterations' = num_iterations
         /\ final_operating_point' = final_operating_point
         /\ final_strategies' = final_strategies]_vars
  /\ [][pc # "done"]_vars
  /\ []((pc = "done" /\ ~ returned.success) =>
          /\ events = SubSeq(IterationSteps, 1, LinQuadCount + 3)
          /\ has_log => Len(log) = num_iterations)

\* The trust-region modifier has given up in the third iteration or later,
\* after iterates were logged.
C11_Witness ==
  /\ pc = "done"
  /\ ~ returned.success
  /\ num_iterations >= 3
  /\ has_log
  /\ Len(log) = num_iterations

\* C12: when SolveLQGame is invoked in some iteration on an LQ game whose
\* S(k) is singular, Solve returns false in that step, and the log ends with
\* the last valid iterate: the pair logged by the previous iteration, or the
\* initial pair.
C12_SingularReturnsFailure ==
  [][(pc = "solve" /\ SingularS(game, linearization, quadraticization)) =>
       /\ pc' = "done"
       /\ DOMAIN returned' = {"success"}
       /\ returned'.success = FALSE
       /\ log' = log]_vars

\* C13: a size mismatch between the initial strategies, the initial
\* operating point and the solver (a number of strategies other than
\* NumPlayers, a strategy or an operating point whose length is not T) is
\* fatal before the first iteration: Solve is aborted with no rollout run,
\* no LQ game solved and nothing appended to the log.
C13_MismatchFatalBeforeIterating ==
  (\/ ~ StrategiesWellSized(initial_strategies)
   \/ ~ OperatingPointWellSized(initial_operating_point)) =>
    /\ pc = "aborted"
    /\ num_iterations = 0
    /\ events = <<>>
    /\ log = <<>>

\* C14: Solve works on two operating points, last and current, swapped once
\* per iteration, at the rollout and nowhere else: after the swap of
\* iteration n >= 1, last_operating_point is the current operating point of
\* iteration n - 1 (the initial operating point when n = 1, the operating
\* point logged by iteration n - 1 otherwise), and the HasConverged test
\* that follows iteration n is taken on the operating points of iterations
\* n - 1 and n.
C14_TwoBuffersSwapped ==
  /\ [][IF pc = "rollout"
        THEN last_operating_point' = current_operating_point
        ELSE last_operating_point' = last_operating_point]_vars
  /\ [][pc \notin {"rollout", "check"} =>
         current_operating_point' = current_operating_point]_vars
  /\ []((num_iterations = 1 /\ pc # "rollout") =>
          last_operating_point = initial_operating_point)
  /\ []((has_log /\ num_iterations >= 1 /\ pc # "rollout") =>
          last_operating_point = log[num_iterations].operating_point)
  /\ []((has_log /\ num_iterations >= 1 /\ pc = "check") =>
          current_operating_point = log[num_iterations + 1].operating_point)
  /\ [][(has_log /\ num_iterations >= 1 /\ pc = "check") =>
         ((pc' = "done") <=>
            HasConverged(num_iterations,
                         log[num_iterations].operating_point,
                         log[num_iterations + 1].operating_point))]_vars

\* The test after the third iteration, on two operating points that differ
\* from each other and from the initial one.
C14_Witness ==
  /\ pc = "check"
  /\ has_log
  /\ num_iterations = 3
  /\ last_operating_point = log[3].operating_point
  /\ current_operating_point = log[4].operating_point
  /\ log[3].operating_point # log[4].operating_point
  /\ log[3].operating_point # log[2].operating_point
  /\ log[2].operating_point # initial_operating_point

\* C15: whenever SolveLQGame is invoked, every linearization[k] is the one
\* taken at time initial_time + k * time_step, state xs[k] and controls
\* us[k] of the current operating point of this iteration, and every
\* quadraticization[k][i] is the one of player i's cost taken at the same
\* time and point; the strategies SolveLQGame yields are those of this
\* linearization and quadraticization.
C15_FreshLinearization ==
  /\ [](pc = "solve" =>
          \A kk \in Steps :
            /\ linearization[kk].t =
                 FloatAdd(game.initial_time,
                          FloatMul(game.time_step, Float(kk)))
            /\ linearization[kk].time_step = game.time_step
            /\ linearization[kk].x = current_operating_point.xs[kk]
            /\ linearization[kk].us = current_operating_point.us[kk]
            /\ \A ii \in Players :
                 /\ quadraticization[kk][ii].player = ii
                 /\ quadraticization[kk][ii].t =
                      FloatAdd(game.initial_time,
                               FloatMul(game.time_step, Float(kk)))
                 /\ quadraticization[kk][ii].x = current_operating_point.xs[kk]
                 /\ quadraticization[kk][ii].us
                      = current_operating_point.us[kk])
  /\ [][pc = "solve" =>
         /\ current_strategies'
              = SolveLQGame(game, linearization, quadraticization)
         /\ linearization' = linearization
         /\ quadraticization' = quadraticization
         /\ current_operating_point' = current_operating_point]_vars

\* SolveLQGame is about to run in the second iteration on an operating
\* point that differs from the one before at the last time step, whose
\* states differ from one step to the next.
C15_Witness ==
  /\ pc = "solve"
  /\ num_iterations = 2
  /\ current_operating_point.xs[NumTimeSteps - 1]
       # last_operating_point.xs[NumTimeSteps - 1]
  /\ current_operating_point.us[0] # last_operating_point.us[0]
  /\ current_operating_point.xs[1] # current_operating_point.xs[0]
  /\ linearization[NumTimeSteps - 1].x
       = current_operating_point.xs[NumTimeSteps - 1]

\* The initial operating point is the equilibrium trajectory of the LQ game
\* from x0 (zero controls), and the initial offsets are zero.
EquilibriumStart ==
  /\ initial_operating_point = OpenLoopTrajectory(game, x0, FloatZero)
  /\ \A ii \in Players : \A kk \in Steps :
       initial_strategies[ii].alphas[kk] = ConstVec(UDim, FloatZero)

\* The rollout of the first iteration: the initial strategies about the
\* initial operating point.
FirstRollout ==
  CurrentOperatingPoint(game, x0, initial_operating_point, initial_strategies,
                        EmptyOperatingPoint).op

\* C16 as stated: on a game that is already LQ, Solve returns after the
\* loop body has run exactly once, and every returned alpha is zero.
C16_LQOneIterationZeroAlphas ==
  (pc = "done" /\ returned.success) =>
    /\ num_iterations = 1
    /\ \A ii \in Players : \A kk \in Steps :
         final_strategies[ii].alphas[kk] = ConstVec(UDim, FloatZero)

\* C16, amended: on a game that is already LQ, the loop body runs exactly
\* once if and only if the first rollout stays within 0.1 of the initial
\* operating point, and the returned alphas are 0.05 times the offsets of
\* the LQ solution about the returned operating point (for the
\* control-effort game, the controls of that operating point).  When the
\* initial operating point is the equilibrium trajectory from x0 and the
\* initial offsets are zero, Solve returns after one iteration with every
\* alpha zero.
C16_LQOneIterationFromEquilibrium ==
  (pc = "done" /\ returned.success) =>
    /\ num_iterations >= 1
    /\ \A first \in {FirstRollout} :
         (num_iterations = 1)
           <=> WithinTolerance(initial_operating_point, first)
    /\ \A ii \in Players : \A kk \in Steps : \A c \in 1 .. UDim :
         final_strategies[ii].alphas[kk][c]
           = FloatMul(final_operating_point.us[kk][ii][c], Hundredths(5))
    /\ EquilibriumStart =>
         /\ num_iterations = 1
         /\ \A ii \in Players : \A kk \in Steps :
              final_strategies[ii].alphas[kk] = ConstVec(UDim, FloatZero)

\* Solve has returned after one iteration, from the equilibrium trajectory
\* of a game with drift that starts away from the origin, with non-zero
\* initial gains.
C16_Witness ==
  /\ pc = "done"
  /\ returned.success
  /\ EquilibriumStart
  /\ game.drift = Hundredths(1)
  /\ x0[1] # FloatZero
  /\ initial_strategies[0].Ps[0][1][1] # FloatZero
  /\ num_iterations = 1
  /\ final_operating_point = initial_operating_point
  /\ final_operating_point.xs[NumTimeSteps - 1] # x0

\* The sum of player ii's stage costs over the first n steps of a trace.
RECURSIVE SumOfCosts(_, _, _)
SumOfCosts(trace, ii, n) ==
  IF n = 0 THEN FloatZero
  ELSE FloatAdd(SumOfCosts(trace, ii, n - 1), trace[n].cost[ii])

\* The exponential constant of the call, and whether it exponentiates.
CallConstant == cost_args.player_costs[0].a
CallExponentiated == CallConstant # FloatZero

\* The exponents a * c_i(k) of the steps evaluated for player ii, and
\* whether the float sum of their exponentials is positive: it is unless
\* every one of them is below log(2^-150), where std::exp gives zero (so
\* also when no step was evaluated), or one of them is the NaN, which the
\* sum then is.
StepExponents(ii) ==
  [n \in 1 .. Len(cost_run.trace) |->
    FloatMul(CallConstant, cost_run.trace[n].cost[ii])]

SumOfExponentialsPositive(ii) ==
  /\ \E n \in 1 .. Len(cost_run.trace) :
       ~ FloatLess(StepExponents(ii)[n], kExpUnderflow)
  /\ \A n \in 1 .. Len(cost_run.trace) : ~ IsNaN(StepExponents(ii)[n])

\* C17: ComputeStrategyCosts returns, for every player i, log(sum over the
\* evaluated steps k of exp(a * c_i(k))) / a when the costs are
\* exponentiated with constant a, and the plain sum of the stage costs
\* c_i(k) otherwise; with exponentiated costs it returns only if a > 0 and
\* every player's total is > 0 (some exponential of it is not zero), and is
\* aborted by a CHECK_GT otherwise.
C17_CostAccumulation ==
  /\ cost_run.pc = "returned" =>
       /\ Len(cost_run.trace) = cost_run.num_time_steps
       /\ \A ii \in Players :
            IF CallExponentiated
            THEN /\ cost_run.returned[ii].kind = "log_over_a"
                 /\ cost_run.returned[ii].a = CallConstant
                 /\ cost_run.returned[ii].of.plain = FloatZero
                 /\ cost_run.returned[ii].of.exps = StepExponents(ii)
                 /\ FloatLess(FloatZero, CallConstant)
                 /\ SumOfExponentialsPositive(ii)
            ELSE /\ cost_run.returned[ii].kind = "total"
                 /\ cost_run.returned[ii].of.exps = <<>>
                 /\ cost_run.returned[ii].of.plain =
                      SumOfCosts(cost_run.trace, ii, Len(cost_run.trace))
  /\ (cost_run.pc = "aborted" /\ cost_run.failed_check # "CHECK_EQ") =>
       /\ CallExponentiated
       /\ cost_run.kk = cost_run.num_time_steps
       /\ IF FloatLess(FloatZero, CallConstant)
          THEN /\ cost_run.failed_check = "CHECK_GT(c, 0.0)"
               /\ \E ii \in Players : ~ SumOfExponentialsPositive(ii)
          ELSE cost_run.failed_check = "CHECK_GT(a, 0.0)"

\* Exponentiated costs with constant 2 were accumulated over three steps
\* whose stage costs differ, and the logarithm over a was returned.
C17_Witness ==
  /\ cost_run.pc = "returned"
  /\ CallConstant = Float(2)
  /\ Len(cost_run.trace) = NumTimeSteps
  /\ cost_run.trace[1].cost[0] # cost_run.trace[2].cost[0]
  /\ cost_run.trace[1].cost[0] # cost_run.trace[1].cost[1]
  /\ FloatLess(FloatZero, cost_run.trace[1].cost[0])
  /\ cost_run.returned[0].of.exps[1]
       = FloatMul(Float(2), cost_run.trace[1].cost[0])

\* C18: all players must share the exponentiation setting: when the
\* result of IsExponentiated or the constant a of some player differs from
\* player 0's (as floats differ: the NaN differs from itself),
\* ComputeStrategyCosts is aborted by a CHECK_EQ before any control is
\* computed or cost accumulated, and it never returns.
C18_SharedExponentiation ==
  /\ (\E ii \in 1 .. NumPlayers - 1 :
        \/ IsExponentiated(cost_args.player_costs[ii]).result
             # IsExponentiated(cost_args.player_costs[0]).result
        \/ IsExponentiated(cost_args.player_costs[ii]).a
             # IsExponentiated(cost_args.player_costs[0]).a
        \/ IsNaN(IsExponentiated(cost_args.player_costs[ii]).a)) =>
       /\ cost_run.pc \in {"start", "aborted"}
       /\ cost_run.pc = "aborted" => cost_run.failed_check = "CHECK_EQ"
       /\ cost_run.trace = <<>>
       /\ cost_run.total_costs = <<>>
       /\ cost_run.returned = <<>>
  /\ cost_run.pc \in {"loop", "returned"} =>
       \A ii \in Players :
         /\ cost_args.player_costs[ii].a = cost_args.player_costs[0].a
         /\ ~ IsNaN(cost_args.player_costs[ii].a)

\* The call was aborted on two exponentiated costs whose constants differ.
C18_Witness ==
  /\ cost_run.pc = "aborted"
  /\ cost_run.failed_check = "CHECK_EQ"
  /\ cost_args.player_costs[0].a = Float(1)
  /\ cost_args.player_costs[NumPlayers - 1].a = Float(2)
  /\ \A ii \in Players : ii < NumPlayers - 1 =>
       cost_args.player_costs[ii].a = Float(1)

\* C19: in open-loop mode every control ComputeStrategyCosts applies is
\* u_i(k) = u_op_i(k) - alpha_i(k), whatever the state reached and the
\* gains; in closed-loop mode it is
\* u_i(k) = u_op_i(k) - P_i(k) (x - xs_op[k]) - alpha_i(k) for the state x
\* reached at step k.
C19_OpenLoopDeviation ==
  \A n \in 1 .. Len(cost_run.trace) :
    LET step == cost_run.trace[n]
        kk == n - 1
    IN /\ step.kk = kk
       /\ \A ii \in Players : \A c \in 1 .. UDim :
            step.us[ii][c] =
              FloatSub(
                FloatSub(cost_args.operating_point.us[kk][ii][c],
                         IF cost_args.open_loop THEN FloatZero
                         ELSE Dot(cost_args.strategies[ii].Ps[kk][c],
                                  [j \in 1 .. XDim |->
                                    FloatSub(step.x[j],
                                      cost_args.operating_point.xs[kk][j])])),
                cost_args.strategies[ii].alphas[kk][c])

\* An open-loop step taken with non-zero gains and offsets at a state away
\* from the operating point, after the state has moved.
C19_Witness ==
  /\ cost_args.open_loop
  /\ Len(cost_run.trace) >= 2
  /\ LET step == cost_run.trace[2]
     IN /\ cost_args.strategies[0].Ps[1][1][1] # FloatZero
        /\ cost_args.strategies[0].alphas[1][1] # FloatZero
        /\ step.x # cost_args.operating_point.xs[1]
        /\ step.x # cost_args.x0
        /\ Dot(cost_args.strategies[0].Ps[1][1],
               VecSub(step.x, cost_args.operating_point.xs[1])) # FloatZero
        /\ step.us[0][1] = FloatSub(cost_args.operating_point.us[1][0][1],
                                    cost_args.strategies[0].alphas[1][1])

\* A heading turned by a quarter turn forwards and backwards:
\* cos(theta + pi/2) = -sin(theta), sin(theta + pi/2) = cos(theta).
QuarterTurn(theta) == <<0 - Sin(theta), Cos(theta)>>
BackQuarterTurn(theta) == <<Sin(theta), 0 - Cos(theta)>>

\* The partial derivative of component i of Evaluate by state component j
\* at (x, u), in fifths.  Evaluate is affine in every state component but
\* the heading, so the derivative is the difference over a unit step; in
\* the heading it is a constant plus a first harmonic g, whose derivative
\* is (g(theta + pi/2) - g(theta - pi/2)) / 2.
DfDx(x, u, i, j) ==
  IF j = kThetaIdx
  THEN (UnicycleEvaluate(0, [x EXCEPT ![j] = QuarterTurn(@)], u)[i]
          - UnicycleEvaluate(0, [x EXCEPT ![j] = BackQuarterTurn(@)], u)[i])
         \div 2
  ELSE UnicycleEvaluate(0, [x EXCEPT ![j] = @ + 1], u)[i]
         - UnicycleEvaluate(0, x, u)[i]

\* The partial derivative of component i of Evaluate by control component
\* j, in fifths: Evaluate is affine in the controls.
DfDu(x, u, i, j) ==
  UnicycleEvaluate(0, x, [u EXCEPT ![j] = @ + 1])[i]
    - UnicycleEvaluate(0, x, u)[i]

\* C20: called with A the identity and B zero, Linearize leaves
\* A = I + time_step * df/dx and B = time_step * df/du, entry by entry,
\* for the f of Evaluate, (v cos theta, v sin theta, omega, a, v), at the
\* state and control it is called with.
C20_LinearizeMatchesEvaluate ==
  (/\ linearize_call.pc = "returned"
   /\ linearize_call.args.A = IdentityMatrix(kNumXDims)
   /\ linearize_call.args.B = FilledMatrix(kNumXDims, kNumUDims, 0)) =>
    LET args == linearize_call.args
    IN /\ \A i, j \in 0 .. kNumXDims - 1 :
            linearize_call.A[i][j] =
              (IF i = j THEN TrigUnit ELSE 0)
                + args.time_step * DfDx(args.x, args.u, i, j)
       /\ \A i \in 0 .. kNumXDims - 1 : \A j \in 0 .. kNumUDims - 1 :
            linearize_call.B[i][j] =
              args.time_step * DfDu(args.x, args.u, i, j)

\* Linearize has returned for an oblique heading (cos 3/5, sin 4/5), speed
\* 3 and time step 2, called on the identity and zero: the entry of A for
\* the x velocity by the heading is 2 * (-3 * 4/5).
C20_Witness ==
  /\ linearize_call.pc = "returned"
  /\ linearize_call.args.A = IdentityMatrix(kNumXDims)
  /\ linearize_call.args.B = FilledMatrix(kNumXDims, kNumUDims, 0)
  /\ linearize_call.args.x[kThetaIdx] = <<3, 4>>
  /\ linearize_call.args.x[kVIdx] = 3
  /\ linearize_call.args.time_step = 2
  /\ linearize_call.A[kPxIdx][kThetaIdx] = 0 - 24
  /\ linearize_call.A[kPyIdx][kThetaIdx] = 18
  /\ linearize_call.B[kVIdx][kAIdx] = 2 * TrigUnit

\* C21: once the three-player example is constructed, each of the three
\* player costs handed to the solver holds params.exponential_constant, so
\* every player's exponentiation setting agrees with the first player's and
\* the checks ComputeStrategyCosts makes on them pass.
C21_ExampleSharesConstant ==
  example.pc = "constructed" =>
    /\ DOMAIN example.player_costs = 0 .. 2
    /\ \A ii \in DOMAIN example.player_costs :
         /\ example.player_costs[ii].a = example.params.exponential_constant
         /\ IsExponentiated(example.player_costs[ii])
              = IsExponentiated(example.player_costs[0])
         /\ AgreesWithFront(example.player_costs, ii)

\* The example constructed with a non-zero constant: all three costs are
\* exponentiated with it.
C21_Witness ==
  /\ example.pc = "constructed"
  /\ example.params.exponential_constant = Float(3)
  /\ \A ii \in 0 .. 2 : IsExponentiated(example.player_costs[ii]).result

\* The elements of a sequence.
Range(seq) == {seq[n] : n \in DOMAIN seq}

\* The subsystems whose positions a signed-distance cost measures between.
PlayersOf(cost) ==
  {cost.position1[1].block, cost.position1[2].block,
   cost.position2[1].block, cost.position2[2].block}

\* The players whose cost holds the given state cost.
HoldersOf(player_costs, cost) ==
  {ii \in DOMAIN player_costs : cost \in Range(player_costs[ii].state_costs)}

\* The state costs held by some player of the constructed example.
ExampleStateCosts ==
  UNION {Range(example.player_costs[ii].state_costs) :
           ii \in DOMAIN example.player_costs}

\* C29: in the constructed three-player example player i's cost has one
\* control cost, on control i; for every pair of distinct players exactly
\* one signed-distance cost measures between the two, and it is a state cost
\* of exactly these two players; every player has exactly two state costs.
C29_ExampleCostStructure ==
  example.pc = "constructed" =>
    /\ \A ii \in 0 .. 2 :
         /\ Len(example.player_costs[ii].control_costs) = 1
         /\ \A c \in Range(example.player_costs[ii].control_costs) :
              c.idx = ii
         /\ Len(example.player_costs[ii].state_costs) = 2
         /\ Cardinality(Range(example.player_costs[ii].state_costs)) = 2
    /\ \A ii \in 0 .. 2 : \A jj \in 0 .. 2 :
         ii < jj =>
           /\ Cardinality({c \in ExampleStateCosts :
                             PlayersOf(c) = {ii, jj}}) = 1
           /\ \A c \in ExampleStateCosts :
                PlayersOf(c) = {ii, jj} =>
                  HoldersOf(example.player_costs, c) = {ii, jj}
    /\ Cardinality(ExampleStateCosts) = 3

\* The constructed example: the second player's cost holds the collision
\* costs with the first and with the third player and a cost on control 1.
C29_Witness ==
  /\ example.pc = "constructed"
  /\ example.player_costs[1].control_costs[1].idx = 1
  /\ {PlayersOf(c) : c \in Range(example.player_costs[1].state_costs)}
       = {{0, 1}, {1, 2}}

\* C22: when Solve returns true, the operating point it hands back is the
\* one of the last rollout (the one last linearized about, rolled out with
\* the strategies of the iterate before), the strategies it hands back are
\* the modified LQ solution about that operating point, and with a log the
\* pair is the last entry of the log.
C22_ReturnsLastLoggedPair ==
  (pc = "done" /\ returned.success) =>
    /\ num_iterations >= 1
    /\ \A kk \in Steps :
         /\ linearization[kk].x = final_operating_point.xs[kk]
         /\ linearization[kk].us = final_operating_point.us[kk]
    /\ final_strategies
         = CallModifyLQStrategies(
             game, final_operating_point,
             SolveLQGame(game, linearization, quadraticization)).strategies
    /\ has_log =>
         /\ Len(log) = num_iterations + 1
         /\ log[Len(log)] = [operating_point |-> final_operating_point,
                             strategies |-> final_strategies]
         /\ \A before \in {log[Len(log) - 1]} :
              \A r \in {CurrentOperatingPoint(game, x0, before.operating_point,
                                              before.strategies,
                                              initial_operating_point)} :
                r.op = final_operating_point

\* Solve returned true after two iterations or more with a log, and rolling
\* out the returned strategies about the returned operating point gives
\* another operating point than the returned one.
C22_Witness ==
  /\ pc = "done"
  /\ returned.success
  /\ has_log
  /\ num_iterations >= 2
  /\ log[Len(log)].operating_point = final_operating_point
  /\ \A r \in {CurrentOperatingPoint(game, x0, final_operating_point,
                                     final_strategies,
                                     final_operating_point)} :
       r.op # final_operating_point

\* C23: when Solve returns false, final_operating_point and final_strategies
\* hold what the caller passed, and with a log the log holds the initial pair
\* and one pair per iteration completed before the failing one: its last
\* entry is the iterate before, whose operating point is last_operating_point
\* and whose strategies rolled out the operating point of the failed iterate.
C23_FailureLeavesOutputs ==
  (pc = "done" /\ ~ returned.success) =>
    /\ final_operating_point = CallerOperatingPoint
    /\ final_strategies = CallerStrategies
    /\ num_iterations >= 1
    /\ has_log =>
         /\ Len(log) = num_iterations
         /\ \A before \in {log[Len(log)]} :
              /\ before.operating_point = last_operating_point
              /\ \A r \in {CurrentOperatingPoint(game, x0,
                                                 before.operating_point,
                                                 before.strategies,
                                                 initial_operating_point)} :
                   r.op = current_operating_point

\* Solve returned false in the second iteration or later, with a log whose
\* last entry is another pair than the iterate that failed.
C23_Witness ==
  /\ pc = "done"
  /\ ~ returned.success
  /\ has_log
  /\ num_iterations >= 2
  /\ final_strategies = CallerStrategies
  /\ log[Len(log)].operating_point # current_operating_point
  /\ log[Len(log)].strategies # current_strategies

\* A solver whose dynamics, time step and horizon are those of the call of
\* ComputeStrategyCosts, with initial time 0.
CostSolver ==
  [drift |-> cost_args.dynamics.drift, time_step |-> cost_args.time_step,
   initial_time |-> FloatZero,
   num_time_steps |-> NumGains(cost_args.strategies)]

\* A closed-loop call of ComputeStrategyCosts.
CallClosedLoop ==
  /\ cost_run.pc # "idle"
  /\ ~ cost_args.open_loop

\* The operating point CurrentOperatingPoint yields from the x0, the
\* strategies and the operating point of the call of ComputeStrategyCosts.
CostRollout ==
  CurrentOperatingPoint(CostSolver, cost_args.x0, cost_args.operating_point,
                        cost_args.strategies, cost_args.operating_point)

\* The time ComputeStrategyCosts has accumulated (t = next_t, line 110) is
\* the time stamp of CurrentOperatingPoint (line 177) at every step the
\* walk has made before its n-th, that is at the time indices 0 .. n - 2.
TimesAgreeBefore(n) ==
  \A j \in 1 .. n - 1 :
    cost_run.trace[j].t = ComputeTimeStamp(CostSolver, j - 1)

\* In closed loop the state and the controls ComputeStrategyCosts is at in
\* step k are xs[k] and us[k] of the operating point CurrentOperatingPoint
\* yields from the same x0, the same strategies and the same operating
\* point taken as last operating point, for every k in 0..T-1.
C24_CostWalkMatchesRollout ==
  CallClosedLoop =>
    \A r \in {CostRollout} :
      \A n \in 1 .. Len(cost_run.trace) :
        /\ cost_run.trace[n].x = r.op.xs[n - 1]
        /\ cost_run.trace[n].us = r.op.us[n - 1]

\* C24: in closed loop the walk of ComputeStrategyCosts makes T steps, at
\* the time indices 0..T-1, and the state and the controls of step k are
\* xs[k] and us[k] of the operating point of CurrentOperatingPoint whenever
\* the dynamics do not depend on time or the times of the two walks agree
\* at every step before k; the times agree at the steps 0..3 whatever the
\* time step, so the two walks agree at the steps 0..4.
C24_CostWalkMatchesRolloutWhileTimesAgree ==
  CallClosedLoop =>
    \A r \in {CostRollout} :
      /\ \A n \in 1 .. Len(cost_run.trace) :
           /\ cost_run.trace[n].kk = n - 1
           /\ (cost_args.dynamics.drift = FloatZero \/ TimesAgreeBefore(n)) =>
                /\ cost_run.trace[n].x = r.op.xs[n - 1]
                /\ cost_run.trace[n].us = r.op.us[n - 1]
           /\ n <= 5 => TimesAgreeBefore(n)
      /\ cost_run.pc = "returned" =>
           Len(cost_run.trace) = NumGains(cost_args.strategies)

\* A closed-loop walk over the long horizon with a time step of 0.1 under
\* drifting dynamics, with feedback gains and started off the operating
\* point: the two walks agree at the steps 0..4, where the controls differ
\* from the reference controls and the state moves, the times have parted
\* before the last step, and the last state is not the one of the rollout.
C24_Witness ==
  /\ CallClosedLoop
  /\ cost_run.pc = "returned"
  /\ NumGains(cost_args.strategies) = LongHorizon
  /\ cost_args.time_step = Hundredths(10)
  /\ cost_args.dynamics.drift # FloatZero
  /\ cost_args.x0 # cost_args.operating_point.xs[0]
  /\ cost_args.strategies[0].Ps[0][1][1] # FloatZero
  /\ ~ TimesAgreeBefore(LongHorizon)
  /\ \E r \in {CostRollout} :
       /\ \A n \in 1 .. 5 :
            /\ cost_run.trace[n].us # cost_args.operating_point.us[n - 1]
            /\ cost_run.trace[n].next_x # cost_run.trace[n].x
            /\ cost_run.trace[n].x = r.op.xs[n - 1]
       /\ cost_run.trace[LongHorizon].x # r.op.xs[LongHorizon - 1]

\* The loop of ComputeStrategyCosts has been left.
WalkFinished ==
  \/ cost_run.pc = "returned"
  \/ cost_run.pc = "aborted" /\ cost_run.failed_check # "CHECK_EQ"

\* C25: with T = strategies[0].Ps.size() >= 1, the walk of
\* ComputeStrategyCosts makes T steps in closed loop and T - 1 in open loop;
\* step k starts at the time and in the state the step before moved to (0
\* and x0 for k = 0), moves the time on by time_step, integrates once from
\* there with the controls of the step, and charges player i
\* Evaluate(t_k, x_k, u_k) in closed loop and
\* EvaluateOffset(t_k, t_k+1, x_k+1, u_k) in open loop; the vector returned
\* has one entry per player.
C25_StepsAndStageCosts ==
  (WalkFinished /\ NumGains(cost_args.strategies) >= 1) =>
    /\ Len(cost_run.trace) =
         IF cost_args.open_loop THEN NumGains(cost_args.strategies) - 1
         ELSE NumGains(cost_args.strategies)
    /\ \A n \in 1 .. Len(cost_run.trace) :
         \A step \in {cost_run.trace[n]} :
           /\ step.kk = n - 1
           /\ step.t = IF n = 1 THEN FloatZero
                       ELSE cost_run.trace[n - 1].next_t
           /\ step.next_t = FloatAdd(step.t, cost_args.time_step)
           /\ step.x = IF n = 1 THEN cost_args.x0
                       ELSE cost_run.trace[n - 1].next_x
           /\ step.next_x = Integrate(cost_args.dynamics, step.t,
                                      cost_args.time_step, step.x, step.us)
           /\ \A ii \in Players :
                step.cost[ii] =
                  IF cost_args.open_loop
                  THEN EvaluateOffset(cost_args.player_costs[ii], step.t,
                                      step.next_t, step.next_x, step.us)
                  ELSE Evaluate(cost_args.player_costs[ii], step.t, step.x,
                                step.us)
    /\ cost_run.pc = "returned" => DOMAIN cost_run.returned = Players

\* An open-loop walk over T = NumTimeSteps that returned after T - 1 steps,
\* each charging another cost than the state before integration would.
C25_Witness ==
  /\ cost_run.pc = "returned"
  /\ cost_args.open_loop
  /\ NumGains(cost_args.strategies) = NumTimeSteps
  /\ Len(cost_run.trace) = NumTimeSteps - 1
  /\ \A n \in 1 .. Len(cost_run.trace) :
       cost_run.trace[n].cost[0]
         # Evaluate(cost_args.player_costs[0], cost_run.trace[n].t,
                    cost_run.trace[n].x, cost_run.trace[n].us)

\* C26: for every horizon T = strategies[0].Ps.size() >= 0, in both modes,
\* every pass of the loop of ComputeStrategyCosts is at a time index below
\* T, so that T bounds the passes made and nothing is read past the end;
\* with T = 0 the loop is left without a pass and, when the call returns,
\* every player's cost is zero.
C26_ReadsWithinHorizon ==
  /\ cost_run.pc # "idle" => cost_run.kk <= NumGains(cost_args.strategies)
  /\ cost_run.pc # "crashed"
  /\ (cost_run.pc = "returned" /\ NumGains(cost_args.strategies) = 0) =>
       \A ii \in Players :
         /\ cost_run.returned[ii].of.plain = FloatZero
         /\ cost_run.returned[ii].of.exps = <<>>

\* The entries of A Linearize adds to, and the entries of B it writes.
AddedToA ==
  {<<kPxIdx, kThetaIdx>>, <<kPxIdx, kVIdx>>, <<kPyIdx, kThetaIdx>>,
   <<kPyIdx, kVIdx>>, <<kSIdx, kVIdx>>}

WrittenInB == {<<kThetaIdx, kOmegaIdx>>, <<kVIdx, kAIdx>>}

\* What a call with the given arguments adds to A and writes to B: what it
\* leaves in matrices that were zero.
Increments(args) ==
  UnicycleLinearize(args.t, args.time_step, args.x, args.u,
                    FilledMatrix(kNumXDims, kNumXDims, 0),
                    FilledMatrix(kNumXDims, kNumUDims, 0))

\* C27: a call of Linearize leaves every entry of A but (px, theta),
\* (px, v), (py, theta), (py, v), (s, v) and every entry of B but
\* (theta, omega), (v, a) as it was; each of the five entries of A is its
\* content on entry plus an increment, each of the two entries of B is
\* time_step whatever it held; a second call with the same arguments leaves
\* B as the first did and adds the increments to A once more.
C27_LinearizeFrame ==
  linearize_call.pc \in {"returned", "returned_again"} =>
    \A inc \in {Increments(linearize_call.args)} :
      \A before \in {IF linearize_call.pc = "returned"
                     THEN [A |-> linearize_call.args.A,
                           B |-> linearize_call.args.B]
                     ELSE linearize_call.first} :
        /\ \A i \in 0 .. kNumXDims - 1 : \A j \in 0 .. kNumXDims - 1 :
             linearize_call.A[i][j] =
               IF <<i, j>> \in AddedToA THEN before.A[i][j] + inc.A[i][j]
               ELSE before.A[i][j]
        /\ \A i \in 0 .. kNumXDims - 1 : \A j \in 0 .. kNumUDims - 1 :
             linearize_call.B[i][j] =
               IF <<i, j>> \in WrittenInB
               THEN TrigUnit * linearize_call.args.time_step
               ELSE before.B[i][j]
        /\ linearize_call.pc = "returned_again" =>
             /\ linearize_call.B = before.B
             /\ linearize_call.A[kSIdx][kVIdx] =
                  linearize_call.args.A[kSIdx][kVIdx]
                    + 2 * TrigUnit * linearize_call.args.time_step

\* Linearize called twice on matrices that held ones everywhere: the second
\* call changed A again and left B alone, and entries outside the seven
\* still hold ones.
C27_Witness ==
  /\ linearize_call.pc = "returned_again"
  /\ linearize_call.args.A = FilledMatrix(kNumXDims, kNumXDims, TrigUnit)
  /\ linearize_call.args.B = FilledMatrix(kNumXDims, kNumUDims, TrigUnit)
  /\ linearize_call.args.time_step = 2
  /\ linearize_call.A # linearize_call.first.A
  /\ linearize_call.B = linearize_call.first.B
  /\ linearize_call.B # linearize_call.args.B
  /\ linearize_call.A[kThetaIdx][kPxIdx] = TrigUnit
  /\ linearize_call.B[kPxIdx][kOmegaIdx] = TrigUnit

\* The states at the position of x.
SamePosition(x) ==
  {DistanceState(x[kPxIdx], x[kPyIdx], mo) : mo \in DistanceMotions}

\* The two states are at one position, of finite coordinates.
Coincide(xa, xb) ==
  /\ xa[kPxIdx] = xb[kPxIdx]
  /\ xa[kPyIdx] = xb[kPyIdx]
  /\ xa[kPxIdx].e # 128
  /\ xa[kPyIdx].e # 128

\* A coordinate that is a whole number of magnitude up to 4, as a number.
Whole(c) ==
  CHOOSE n \in (0 - 4) .. 4 : Float(n) = c

IsWhole(c) == \E n \in (0 - 4) .. 4 : Float(n) = c

\* The coordinates of the two states differ by no more than 2^-75, the
\* largest float whose square rounds to zero.
WithinUnderflow(ca, cb) ==
  \A d \in {FloatSub(ca, cb)} :
    /\ d.e # 128
    /\ ~ FloatLess(PowerOfTwo(0 - 75), d)
    /\ ~ FloatLess(d, FloatNeg(PowerOfTwo(0 - 75)))

\* DistanceBetween(x0, x1) is the squared Euclidean distance between the
\* (px, py) positions: symmetric, never negative, zero exactly when both
\* positions coincide, and independent of theta, v and s.
C28_DistanceBetweenSquared ==
  distance_call.pc = "returned" =>
    \A xa \in {distance_call.x0} : \A xb \in {distance_call.x1} :
      /\ distance_call.result = DistanceBetween(xb, xa)
      /\ ~ FloatLess(distance_call.result, FloatZero)
      /\ distance_call.result = FloatZero <=>
           (xa[kPxIdx] = xb[kPxIdx] /\ xa[kPyIdx] = xb[kPyIdx])
      /\ \A ya \in SamePosition(xa) : \A yb \in SamePosition(xb) :
           DistanceBetween(ya, yb) = distance_call.result

\* C28: DistanceBetween(x0, x1) is the squared Euclidean distance between
\* the (px, py) positions as float arithmetic computes it.  It is the same
\* with the arguments exchanged and for all states at these two positions,
\* whatever their theta, v and s, and it is never below zero.  For
\* positions of whole coordinates it is the exact square of the distance.
\* It is zero when the positions coincide, and exactly when neither
\* coordinate differs by more than 2^-75; it is the NaN exactly when a
\* coordinate difference is, and otherwise +infinity when a coordinate
\* difference has a magnitude of 2^64 or more.
C28_DistanceBetweenFloat ==
  distance_call.pc = "returned" =>
    \A xa \in {distance_call.x0} : \A xb \in {distance_call.x1} :
      \A dx \in {FloatSub(xa[kPxIdx], xb[kPxIdx])} :
        \A dy \in {FloatSub(xa[kPyIdx], xb[kPyIdx])} :
          /\ distance_call.result = DistanceBetween(xb, xa)
          /\ \A ya \in SamePosition(xa) : \A yb \in SamePosition(xb) :
               DistanceBetween(ya, yb) = distance_call.result
          /\ ~ FloatLess(distance_call.result, FloatZero)
          /\ (/\ IsWhole(xa[kPxIdx]) /\ IsWhole(xb[kPxIdx])
              /\ IsWhole(xa[kPyIdx]) /\ IsWhole(xb[kPyIdx])) =>
               distance_call.result =
                 Float((Whole(xa[kPxIdx]) - Whole(xb[kPxIdx]))
                         * (Whole(xa[kPxIdx]) - Whole(xb[kPxIdx]))
                       + (Whole(xa[kPyIdx]) - Whole(xb[kPyIdx]))
                           * (Whole(xa[kPyIdx]) - Whole(xb[kPyIdx])))
          /\ Coincide(xa, xb) => distance_call.result = FloatZero
          /\ distance_call.result = FloatZero <=>
               (/\ WithinUnderflow(xa[kPxIdx], xb[kPxIdx])
                /\ WithinUnderflow(xa[kPyIdx], xb[kPyIdx]))
          /\ IsNaN(distance_call.result) <=> (IsNaN(dx) \/ IsNaN(dy))
          /\ (/\ ~ IsNaN(dx)
              /\ ~ IsNaN(dy)
              /\ \/ ~ FloatLess(dx, PowerOfTwo(64))
                 \/ ~ FloatLess(FloatNeg(PowerOfTwo(64)), dx)
                 \/ ~ FloatLess(dy, PowerOfTwo(64))
                 \/ ~ FloatLess(FloatNeg(PowerOfTwo(64)), dy)) =>
               distance_call.result = FloatInf(1)

\* The distance between two states 2^-80 apart along x and at the same y,
\* which differ in heading, speed and length of track as well: zero, the
\* square of the difference having underflowed.
C28_Witness ==
  /\ distance_call.pc = "returned"
  /\ distance_call.x0[kPxIdx] = PowerOfTwo(0 - 80)
  /\ distance_call.x1[kPxIdx] = Float(0)
  /\ distance_call.x0[kPyIdx] = Float(4)
  /\ distance_call.x1[kPyIdx] = Float(4)
  /\ distance_call.x0[kThetaIdx] # distance_call.x1[kThetaIdx]
  /\ distance_call.x0[kVIdx] # distance_call.x1[kVIdx]
  /\ distance_call.x0[kSIdx] # distance_call.x1[kSIdx]
  /\ distance_call.result = FloatZero

\* A call of run_ilqgames has started in this step.
CallStarts == matlab.pc = "prompt" /\ matlab'.pc # "prompt"

\* The executable is launched by a call exactly when no entry of the logs
\* folder has the name experiment_name + extra_suffix when the call starts,
\* and a launch is of the folder name of the call.
LaunchedIffNoEntry ==
  /\ [][CallStarts =>
          (matlab'.pc = "launch"
             <=> FolderName(matlab'.args) \notin DOMAIN matlab.logs)]_vars
  /\ [][matlab'.launches # matlab.launches =>
          /\ matlab.pc = "launch"
          /\ FolderName(matlab.args) \notin DOMAIN matlab.logs
          /\ matlab'.launches =
               Append(matlab.launches, matlab'.launches[Len(matlab'.launches)])
          /\ matlab'.launches[Len(matlab'.launches)].name
               = FolderName(matlab.args)]_vars

\* A call that found the folder launches nothing and loads no file but
\* xs.txt and costs.txt of an entry of that folder: the first one whose
\* name does not start with a dot.
FoundOnlyReads ==
  (matlab.pc = "prompt" /\ matlab.calls > 0) =>
    /\ matlab.launched <=> ~ matlab.existed
    /\ \A n \in DOMAIN matlab.reads :
         \E entries \in {matlab.logs[FolderName(matlab.args)]} :
           \E k \in DOMAIN entries :
             /\ entries[k].first # "."
             /\ \A j \in 1 .. k - 1 : entries[j].first = "."
             /\ matlab.reads[n] \in
                  {"../logs/" \o FolderName(matlab.args) \o "/"
                     \o entries[k].first \o entries[k].rest \o "/xs.txt",
                   "../logs/" \o FolderName(matlab.args) \o "/"
                     \o entries[k].first \o entries[k].rest \o "/costs.txt"}

\* The working directory is the matlab folder whenever no call is running.
BackInMatlab == matlab.pc = "prompt" => matlab.cwd = <<"matlab">>

\* C30 as stated: run_ilqgames launches the executable if and only if no
\* entry of the logs folder is named experiment_name + extra_suffix; a call
\* that finds the folder only reads xs.txt and costs.txt from it; over any
\* sequence of calls no folder name is launched twice; the working
\* directory is the matlab folder after every call.
C30_LaunchedOncePerName ==
  /\ LaunchedIffNoEntry
  /\ [](FoundOnlyReads /\ BackInMatlab)
  /\ [](\A i \in DOMAIN matlab.launches : \A j \in DOMAIN matlab.launches :
          i < j => matlab.launches[i].name # matlab.launches[j].name)

\* C30: as above, but a folder name is launched again only after launches
\* that left no folder of that name: no name is launched after a launch
\* that saved its folder, and every launch that saved its folder is
\* followed by calls that find it.
C30_LaunchedOncePerSavedRun ==
  /\ LaunchedIffNoEntry
  /\ [](FoundOnlyReads /\ BackInMatlab)
  /\ [](\A i \in DOMAIN matlab.launches :
          /\ matlab.launches[i].saved =>
               matlab.launches[i].name \in DOMAIN matlab.logs
          /\ \A j \in DOMAIN matlab.launches :
               (i < j /\ matlab.launches[i].name = matlab.launches[j].name)
                 => ~ matlab.launches[i].saved)

\* Two calls for the same experiment: the first launched the executable,
\* which saved its folder; the second found the folder, launched nothing,
\* loaded the two files and is back in the matlab folder.
C30_Witness ==
  /\ matlab.pc = "prompt"
  /\ matlab.calls = 2
  /\ Len(matlab.launches) = 1
  /\ matlab.launches[1].saved
  /\ matlab.launches[1].name = FolderName(matlab.args)
  /\ matlab.existed
  /\ ~ matlab.launched
  /\ matlab.status = "done"
  /\ Len(matlab.reads) = 2
  /\ matlab.cwd = <<"matlab">>


====
